---- MODULE Spec2Model ----
(***************************************************************************)
(* gbpx: the transactional repository mutation engine (src/gbpx).          *)
(*                                                                         *)
(* The working directory is a record `rep` (the git repository and its     *)
(* working tree), the backup directory a function `bak` from archive names *)
(* to archived directory contents.  Every library function of gitutil.py   *)
(* and gbpxutil.py is an operator from the directory it is called in to    *)
(* the set of its possible outcomes [r |-> directory after, res |-> "ok"   *)
(* or the class of the error raised]: an external command may fail for     *)
(* reasons the directory does not decide, so one call has several          *)
(* outcomes.  _execute is cut at its calls into the steps below.           *)
(***************************************************************************)
EXTENDS Integers, Sequences, FiniteSets, TLC

VARIABLES
    pc,         \* position in _execute
    action,     \* the requested Action
    flags,      \* [safemode]
    options,    \* [norestore]
    rep,        \* the working directory (repository and working tree)
    bak,        \* the archives in bak_dir: name -> archived directory
    bak_name,   \* _execute's bak_name: <<>> is None, else <<name>>
    init_data,  \* _exec_init's (run_action, conf, restore_data)
    calls,      \* history: the engine calls made so far, in order
    status,     \* how the run went: "run", "ok", "failed", "quit", "uncaught"
    rep0,       \* history: the working directory when the run began
    fail,       \* history: the step that failed and the directory it left
    body_reps,  \* history: the directory before and after the action body
    args,       \* the arguments of a utility function called on its own
    ret,        \* what that call returned or raised
    fs          \* the tags and files a function of gbpxutil.py works on

vars == <<pc, action, flags, options, rep, bak, bak_name, init_data, calls,
          status, rep0, fail, body_reps, args, ret, fs>>

(***************************************************************************)
(* Bounds of the model.                                                    *)
(***************************************************************************)
MaxVer == 2

Versions == 1..MaxVer

Branches == {"master", "upstream", "debian", "work"}

\* uncommitted work: "m" a modified tracked file, "u" an untracked file
Changes == {"m", "u"}

(***************************************************************************)
(* gbpxargs.py, gbpx.py: actions and their execution configuration.        *)
(***************************************************************************)
Action == {"test-pkg", "commit-release", "update-changelog", "test-build",
           "commit-build", "upload", "clone", "restore", "config"}

_MASTER_BRANCH == "master"

_ActionConf(is_repository_based, clean, restore, critical_branches) ==
    [is_repository_based |-> is_repository_based, clean |-> clean,
     restore_backup |-> restore, critical_branches |-> critical_branches]

_ACTION_CONF ==
    [a \in Action |->
        CASE a = "test-pkg" -> _ActionConf(TRUE, TRUE, TRUE, {})
          [] a = "commit-release" ->
                _ActionConf(TRUE, TRUE, FALSE,
                            {"releaseBranch", "upstreamBranch", "debianBranch"})
          [] a = "update-changelog" ->
                _ActionConf(TRUE, TRUE, FALSE, {"debianBranch"})
          [] a = "test-build" -> _ActionConf(TRUE, TRUE, FALSE, {})
          [] a = "commit-build" ->
                _ActionConf(TRUE, TRUE, FALSE, {"debianBranch"})
          [] a = "upload" -> _ActionConf(TRUE, FALSE, FALSE, {})
          [] OTHER -> _ActionConf(FALSE, FALSE, FALSE, {})]

\* the defaults of the required [GIT] keys, as create_ex_config writes them
_CONFIG ==
    [releaseBranch |-> "master", releaseTagType |-> "release",
     upstreamBranch |-> "upstream", upstreamTagType |-> "upstream",
     debianBranch |-> "debian", debianTagType |-> "debian"]

(***************************************************************************)
(* Outcomes.                                                               *)
(***************************************************************************)
Out(r, res) == [r |-> r, res |-> res]

\* `except <classes> ...: raise <to>`: the errors of S that are of one of the
\* classes are raised again as `to`; the others, and the returns, pass
Raise(S, classes, to) ==
    {IF o.res \in classes THEN Out(o.r, to) ELSE o : o \in S}

\* class Error and its subclasses (ioutil.py, gitutil.py, gbpxutil.py)
Error == {"CommandError", "GitError", "ConfigError", "OpError"}

HeadCommit(r, b) == r.hist[b][Len(r.hist[b])]

(***************************************************************************)
(* gitutil.py                                                              *)
(***************************************************************************)
check_git_rep(r) ==
    IF r.isRepo THEN {Out(r, "ok")} ELSE {Out(r, "GitError")}

\* git checkout: not suppressed by safemode.  With uncommitted changes in the
\* tree git either carries them to the other branch or refuses.
switch_branch(r, branch) ==
    IF ~r.isRepo \/ branch \notin r.branches THEN {Out(r, "GitError")}
    ELSE IF branch = r.branch THEN {Out(r, "ok")}
    ELSE IF r.wt = {} THEN {Out([r EXCEPT !.branch = branch], "ok")}
    ELSE {Out([r EXCEPT !.branch = branch], "ok"), Out(r, "GitError")}

get_branch(r) == check_git_rep(r)

get_head_commit(r, branch) == switch_branch(r, branch)

is_working_dir_clean(r) == r.wt = {}

\* git stash save --include-untracked <name>
stash_changes(r, safemode, name) ==
    IF ~r.isRepo THEN {Out(r, "GitError")}
    ELSE IF safemode \/ r.wt = {} THEN {Out(r, "ok")}
    ELSE {Out([r EXCEPT
                 !.stash = <<[name |-> name, changes |-> r.wt,
                              base |-> HeadCommit(r, r.branch)]>> \o r.stash,
                 !.wt = {}], "ok"),
          Out(r, "GitError")}

\* the stash entry `git stash apply` takes: the top one for name None (<<>>),
\* else the first whose message matches the name; 0 when there is none
StashIndex(r, name) ==
    IF name = <<>> THEN (IF r.stash = <<>> THEN 0 ELSE 1)
    ELSE IF \E i \in 1..Len(r.stash) : r.stash[i].name = name
         THEN CHOOSE i \in 1..Len(r.stash) :
                /\ r.stash[i].name = name
                /\ \A j \in 1..(i - 1) : r.stash[j].name # name
         ELSE 0

DropAt(s, i) == [j \in 1..(Len(s) - 1) |-> IF j < i THEN s[j] ELSE s[j + 1]]

\* git stash apply [+ git stash drop]: fails without a stash entry and when
\* the entry touches what the tree has changed; may conflict on another base
GitStashApply(r, name, drop) ==
    LET i == StashIndex(r, name) IN
    IF i = 0 THEN {Out(r, "GitError")}
    ELSE IF r.wt \cap r.stash[i].changes # {} THEN {Out(r, "GitError")}
    ELSE {Out([r EXCEPT !.wt = r.wt \cup r.stash[i].changes,
                        !.stash = IF drop THEN DropAt(r.stash, i) ELSE r.stash],
              "ok")}
         \cup
         (IF HeadCommit(r, r.branch) = r.stash[i].base THEN {}
          ELSE {Out(r, "GitError")})

apply_stash(r, safemode, branch, name, drop) ==
    UNION {IF o.res # "ok" \/ safemode THEN {o}
           ELSE GitStashApply(o.r, name, drop)
           : o \in switch_branch(r, branch)}

Known(r, commit) ==
    \E b \in Branches : \E i \in 1..Len(r.hist[b]) : r.hist[b][i] = commit

\* the commits up to and including `commit`
ChainTo(r, commit) ==
    LET b == CHOOSE x \in Branches :
                \E i \in 1..Len(r.hist[x]) : r.hist[x][i] = commit
    IN  SubSeq(r.hist[b], 1,
               CHOOSE k \in 1..Len(r.hist[b]) : r.hist[b][k] = commit)

\* git reset --hard <commit>: untracked files stay
GitResetHard(r, commit) ==
    IF ~Known(r, commit) THEN {Out(r, "GitError")}
    ELSE {Out([r EXCEPT !.hist[r.branch] = ChainTo(r, commit),
                        !.wt = r.wt \ {"m"}], "ok")}

reset_branch(r, safemode, branch, commit) ==
    UNION {IF o.res # "ok" \/ safemode THEN {o} ELSE GitResetHard(o.r, commit)
           : o \in switch_branch(r, branch)}

\* git add -A; git commit -m <msg>: fails with nothing to commit
commit_changes(r, safemode) ==
    IF ~r.isRepo THEN {Out(r, "GitError")}
    ELSE IF safemode THEN {Out(r, "ok")}
    ELSE IF r.wt = {} THEN {Out(r, "GitError")}
    ELSE {Out([r EXCEPT !.hist[r.branch] = Append(r.hist[r.branch], r.next),
                        !.next = r.next + 1,
                        !.wt = {}], "ok"),
          Out(r, "GitError")}

\* git tag <tag> at HEAD: fails when the tag exists
GitTag(r, tag) ==
    IF \E t \in r.tags : t.type = tag.type /\ t.ver = tag.ver
    THEN {Out(r, "GitError")}
    ELSE {Out([r EXCEPT !.tags = r.tags \cup
                 {[type |-> tag.type, ver |-> tag.ver,
                   commit |-> HeadCommit(r, r.branch)]}], "ok")}

tag_head(r, safemode, branch, tag) ==
    UNION {IF o.res # "ok" \/ safemode THEN {o} ELSE GitTag(o.r, tag)
           : o \in switch_branch(r, branch)}

\* git clean -fd; git clean -fX: safemode is the only thing it checks
clean_repository(r, safemode) ==
    IF safemode THEN {Out(r, "ok")}
    ELSE IF ~r.isRepo THEN {Out(r, "GitError")}
    ELSE {Out([r EXCEPT !.wt = r.wt \ {"u"}], "ok")}

\* the tags of tag_type at the HEAD of branch (read after switch_branch)
HeadTags(r, branch, tag_type) ==
    {t \in r.tags : t.type = tag_type /\ t.commit = HeadCommit(r, branch)}

get_head_tags(r, branch) == switch_branch(r, branch)

\* head_tags.sort(...); return head_tags[0]: the lowest version
HeadTagVersion(r, branch, tag_type) ==
    CHOOSE v \in {t.ver : t \in HeadTags(r, branch, tag_type)} :
        \A t \in HeadTags(r, branch, tag_type) : v <= t.ver

get_head_tag_version(r, branch, tag_type) ==
    {IF o.res = "ok" /\ HeadTags(o.r, branch, tag_type) = {}
     THEN Out(o.r, "GitError") ELSE o : o \in get_head_tags(r, branch)}

\* git describe --abbrev=0 --tags --match <tag_type>/*: a tag of the type on
\* the nearest tagged commit of the branch
LatestTagVersions(r, branch, tag_type) ==
    LET h == r.hist[branch]
        tagged == {i \in 1..Len(h) :
                     \E t \in r.tags : t.type = tag_type /\ t.commit = h[i]}
    IN  IF tagged = {} THEN {}
        ELSE LET top == CHOOSE i \in tagged : \A j \in tagged : j <= i
             IN  {t.ver : t \in {x \in r.tags :
                                   x.type = tag_type /\ x.commit = h[top]}}

get_latest_tag_version(r, branch, tag_type) ==
    {IF o.res = "ok" /\ LatestTagVersions(o.r, branch, tag_type) = {}
     THEN Out(o.r, "GitError") ELSE o : o \in switch_branch(r, branch)}

(***************************************************************************)
(* gbpxutil.py                                                             *)
(***************************************************************************)
\* the configuration file of the working directory: "ok", "missing" or
\* "invalid" (a required key absent or empty)
get_config(r) ==
    IF r.conf = "ok" THEN {Out(r, "ok")} ELSE {Out(r, "ConfigError")}

create_ex_config(r, safemode) ==
    IF r.conf # "missing" THEN {Out(r, "ConfigError")}
    ELSE IF safemode THEN {Out(r, "ok")}
    ELSE {Out([r EXCEPT !.conf = "ok", !.wt = r.wt \cup {"u"}], "ok"),
          Out(r, "ConfigError")}

\* the last number of the version plus one
get_next_version(version) == version + 1

\* The version verify_create_head_tag returns: version_str and answer are <<>>
\* for None, else <<version>>.
VerifyVersion(r, branch, tag_type, version_str, answer) ==
    IF HeadTags(r, branch, tag_type) # {}
    THEN HeadTagVersion(r, branch, tag_type)
    ELSE IF version_str # <<>> THEN version_str[1] ELSE answer[1]

verify_create_head_tag(r, safemode, branch, tag_type, version_str, answer) ==
    Raise(UNION {IF o.res # "ok" THEN {o}
                 ELSE IF HeadTags(o.r, branch, tag_type) # {}
                 THEN get_head_tag_version(o.r, branch, tag_type)
                 ELSE IF version_str = <<>> /\ answer = <<>>
                 THEN {Out(o.r, "OpError")}
                 ELSE IF safemode THEN {o}
                 ELSE tag_head(o.r, safemode, branch,
                               [type |-> tag_type,
                                ver |-> VerifyVersion(o.r, branch, tag_type,
                                                      version_str, answer)])
                 : o \in get_head_tags(r, branch)},
          Error, "OpError")

\* restore_data of create_temp_commit: (branch, head commit, stash name)
RestoreData(r) ==
    [branch |-> r.branch,
     commit |-> HeadCommit(r, r.branch),
     stash |-> IF is_working_dir_clean(r) THEN <<>>
               ELSE <<HeadCommit(r, r.branch)>>]

\* the parking of create_temp_commit without its commit_changes
ParkChanges_no_commit(r, safemode, current_branch, stash_name) ==
    UNION {IF o.res # "ok" THEN {o}
           ELSE apply_stash(o.r, safemode, current_branch, <<>>, FALSE)
           : o \in stash_changes(r, safemode, stash_name)}

\* stash_changes, apply_stash(drop=False) and commit_changes of a dirty tree
ParkChanges(r, safemode, current_branch, stash_name) ==
    LET p1 == stash_changes(r, safemode, stash_name)
        p2 == UNION {IF o.res # "ok" THEN {o}
                     ELSE apply_stash(o.r, safemode, current_branch, <<>>, FALSE)
                     : o \in p1}
    IN  UNION {IF o.res # "ok" THEN {o} ELSE commit_changes(o.r, safemode)
               : o \in p2}

create_temp_commit(r, safemode) ==
    LET s1 == get_branch(r)
        s2 == UNION {IF o.res # "ok" THEN {o}
                     ELSE get_head_commit(o.r, o.r.branch) : o \in s1}
    IN  Raise(UNION {IF o.res # "ok" \/ is_working_dir_clean(o.r) THEN {o}
                     ELSE ParkChanges(o.r, safemode, r.branch,
                                      RestoreData(r).stash)
                     : o \in s2},
              Error, "OpError")

\* the unparking of restore_temp_commit with drop=False
UnparkChanges_keep_stash(r, safemode, restore_data) ==
    UNION {IF o.res # "ok" THEN {o}
           ELSE apply_stash(o.r, safemode, restore_data.branch, <<>>, FALSE)
           : o \in reset_branch(r, safemode, restore_data.branch,
                                restore_data.commit)}

\* reset_branch and apply_stash(drop=True) of a run that parked changes
UnparkChanges(r, safemode, restore_data) ==
    UNION {IF o.res # "ok" THEN {o}
           ELSE apply_stash(o.r, safemode, restore_data.branch, <<>>, TRUE)
           : o \in reset_branch(r, safemode, restore_data.branch,
                                restore_data.commit)}

\* restore_temp_commit without its test of restore_data[2]
restore_temp_commit_always_unpark(r, safemode, restore_data) ==
    LET s1 == get_branch(r)
        s2 == UNION {IF o.res # "ok" \/ restore_data.branch = o.r.branch
                     THEN {o}
                     ELSE switch_branch(o.r, restore_data.branch) : o \in s1}
    IN  Raise(UNION {IF o.res # "ok" THEN {o}
                     ELSE UnparkChanges(o.r, safemode, restore_data)
                     : o \in s2},
              Error, "OpError")

\* restore_temp_commit without its "Restore branch" step
restore_temp_commit_stay(r, safemode, restore_data) ==
    Raise(UNION {IF o.res # "ok" \/ restore_data.stash = <<>> THEN {o}
                 ELSE UnparkChanges(o.r, safemode, restore_data)
                 : o \in get_branch(r)},
          Error, "OpError")

restore_temp_commit(r, safemode, restore_data) ==
    LET s1 == get_branch(r)
        s2 == UNION {IF o.res # "ok" \/ restore_data.branch = o.r.branch
                     THEN {o}
                     ELSE switch_branch(o.r, restore_data.branch) : o \in s1}
    IN  Raise(UNION {IF o.res # "ok" \/ restore_data.stash = <<>> THEN {o}
                     ELSE UnparkChanges(o.r, safemode, restore_data)
                     : o \in s2},
              Error, "OpError")

\* <name>_<timestamp>.bak.tar.gz
TarName(name, time) == [name |-> name, ts |-> time]

OutB(r, b, res) == [r |-> r, bak |-> b, res |-> res]

\* tar -czf <bak_dir>/<tar_name> . : the archive holds the whole directory
add_backup(r, b, safemode, name, time) ==
    IF ~r.isRepo THEN {OutB(r, b, "OpError")}
    ELSE IF safemode THEN {OutB(r, b, "ok")}
    ELSE {OutB(r,
               [n \in DOMAIN b \cup {TarName(name, time)} |->
                   IF n = TarName(name, time) THEN r ELSE b[n]],
               "ok"),
          OutB(r, b, "OpError")}

\* what clean_dir(getcwd()) leaves: nothing, .git included
CleanedDir(r) ==
    [r EXCEPT !.isRepo = FALSE, !.branches = {}, !.branch = "",
              !.hist = [x \in Branches |-> <<>>], !.wt = {}, !.stash = <<>>,
              !.tags = {}, !.conf = "missing"]

\* the archives of bak_dir, latest first
BakFiles(b) ==
    LET n == Cardinality(DOMAIN b) IN
    CHOOSE s \in [1..n -> DOMAIN b] :
        /\ \A i, j \in 1..n : i # j => s[i] # s[j]
        /\ \A i, j \in 1..n : i < j => s[i].ts >= s[j].ts

\* num and name are <<>> for None; answer is the operator's choice at the
\* prompt, <<>> for abort
restore_backup(r, b, safemode, num, name, answer) ==
    LET chosen == IF num # <<>> THEN num ELSE answer
        extract(n) ==
            IF safemode THEN {Out(r, "ok")}
            ELSE IF n \in DOMAIN b
                 THEN {Out(b[n], "ok"), Out(CleanedDir(r), "OpError")}
                 ELSE {Out(CleanedDir(r), "OpError")}
    IN  IF ~r.isRepo THEN {Out(r, "OpError")}
        ELSE IF name # <<>> THEN extract(name[1])
        ELSE IF DOMAIN b = {} THEN {Out(r, "OpError")}
        ELSE IF chosen = <<>> THEN {Out(r, "OpError")}
        ELSE IF chosen[1] < 0 \/ chosen[1] >= Cardinality(DOMAIN b)
             THEN {Out(r, "OpError")}
        ELSE extract(BakFiles(b)[chosen[1] + 1])

(***************************************************************************)
(* gbpx.py: the sub command functions.  `inp` is what the run reads from   *)
(* outside the directory: the operator's answers and the files of the      *)
(* build area.                                                             *)
(***************************************************************************)
TagCommit(r, tag_type, ver) ==
    IF \E t \in r.tags : t.type = tag_type /\ t.ver = ver
    THEN (CHOOSE t \in r.tags : t.type = tag_type /\ t.ver = ver).commit
    ELSE 0

\* gbp import-orig --merge: commits the tarball on the upstream branch, tags
\* the commit <upstream type>/<version> and merges it into the debian branch;
\* it can stop after the upstream commit (a failed merge)
GbpImportOrig(r, conf, ver) ==
    IF \/ ~r.isRepo \/ r.wt # {}
       \/ ~({conf.upstreamBranch, conf.debianBranch} \subseteq r.branches)
       \/ TagCommit(r, conf.upstreamTagType, ver) # 0
    THEN {Out(r, "CommandError")}
    ELSE LET imported ==
                 [r EXCEPT
                    !.hist[conf.upstreamBranch] =
                        Append(r.hist[conf.upstreamBranch], r.next),
                    !.tags = r.tags \cup {[type |-> conf.upstreamTagType,
                                           ver |-> ver, commit |-> r.next]},
                    !.next = r.next + 1,
                    !.branch = conf.upstreamBranch]
             merged ==
                 [imported EXCEPT
                    !.hist[conf.debianBranch] =
                        Append(r.hist[conf.debianBranch], imported.next),
                    !.next = imported.next + 1,
                    !.branch = conf.debianBranch]
         IN  {Out(merged, "ok"), Out(imported, "CommandError"),
              Out(r, "CommandError")}

\* "Check versions": upstream_ver is None after a GitError; a release version
\* that is not above the upstream version raises GitError
CheckVersions(r, conf, release_ver) ==
    {IF /\ o.res = "ok"
        /\ ~(HeadTagVersion(o.r, conf.upstreamBranch, conf.upstreamTagType)
               < release_ver)
     THEN Out(o.r, "GitError") ELSE Out(o.r, "ok")
     : o \in get_head_tag_version(r, conf.upstreamBranch,
                                  conf.upstreamTagType)}

\* git archive, tar -xf, tar -czf, gbp import-orig and the reset of the
\* upstream branch to the upstream tag
ImportRelease(r, safemode, conf, release_ver) ==
    LET s4 == IF safemode THEN {Out(r, "ok")}
              ELSE {Out(r, "ok"), Out(r, "CommandError")}
        s5 == UNION {IF o.res # "ok" \/ safemode THEN {o}
                     ELSE GbpImportOrig(o.r, conf, release_ver) : o \in s4}
    IN  UNION {IF o.res # "ok" THEN {o}
               ELSE reset_branch(o.r, safemode, conf.upstreamBranch,
                                 TagCommit(o.r, conf.upstreamTagType,
                                           release_ver))
               : o \in s5}

_commit_release(r, safemode, conf, inp) ==
    LET s1 == verify_create_head_tag(r, safemode, conf.releaseBranch,
                                     conf.releaseTagType, <<>>, inp.answer)
        s3 == UNION {IF o.res # "ok" THEN {o}
                     ELSE CheckVersions(o.r, conf,
                              VerifyVersion(r, conf.releaseBranch,
                                            conf.releaseTagType, <<>>,
                                            inp.answer))
                     : o \in s1}
    IN  Raise(UNION {IF o.res # "ok" THEN {o}
                     ELSE ImportRelease(o.r, safemode, conf,
                              VerifyVersion(r, conf.releaseBranch,
                                            conf.releaseTagType, <<>>,
                                            inp.answer))
                     : o \in s3},
              Error, "OpError")

\* gbp dch, then the editor
GbpDch(r, editor) ==
    {Out(r, "CommandError"), Out([r EXCEPT !.wt = r.wt \cup {"m"}], "ok")}
    \cup (IF editor THEN {Out([r EXCEPT !.wt = r.wt \cup {"m"}], "CommandError")}
          ELSE {})

\* version is <<>> for None
_update_changelog(r, safemode, conf, version, editor, commit) ==
    LET s0 == IF version = <<>>
              THEN Raise(get_head_tag_version(r, conf.upstreamBranch,
                                              conf.upstreamTagType),
                         Error, "OpError")
              ELSE {Out(r, "ok")}
        s1 == UNION {IF o.res # "ok" THEN {o}
                     ELSE switch_branch(o.r, conf.debianBranch) : o \in s0}
        s2 == UNION {IF o.res # "ok" \/ safemode THEN {o}
                     ELSE GbpDch(o.r, editor) : o \in s1}
    IN  Raise(UNION {IF o.res # "ok" \/ ~commit THEN {o}
                     ELSE commit_changes(o.r, safemode) : o \in s2},
              Error, "OpError")

\* gbp buildpackage [--git-tag]: the tag is <debian type>/<version> at the
\* HEAD of the debian branch
GbpBuildpackage(r, conf, version, tag) ==
    IF ~tag THEN {Out(r, "ok"), Out(r, "CommandError")}
    ELSE IF TagCommit(r, conf.debianTagType, version) # 0
    THEN {Out(r, "CommandError")}
    ELSE {Out([r EXCEPT !.tags = r.tags \cup
                 {[type |-> conf.debianTagType, ver |-> version,
                   commit |-> HeadCommit(r, conf.debianBranch)]}], "ok"),
          Out(r, "CommandError")}

\* inp.chlog is the Version field dpkg-parsechangelog prints, 0 when it fails
_build(r, safemode, conf, tag, inp) ==
    LET s0 == Raise(get_head_tag_version(r, conf.upstreamBranch,
                                         conf.upstreamTagType),
                    Error, "OpError")
        \* switch_branch stands outside of any try: its GitError is not
        \* raised again as OpError
        s1 == UNION {IF o.res # "ok" THEN {o}
                     ELSE switch_branch(o.r, conf.debianBranch) : o \in s0}
        s2 == {IF o.res # "ok" THEN o
               ELSE IF inp.chlog = 0 THEN Out(o.r, "OpError")
               ELSE IF HeadTagVersion(o.r, conf.upstreamBranch,
                                      conf.upstreamTagType) # inp.chlog
               THEN Out(o.r, "OpError")
               ELSE o : o \in s1}
    IN  UNION {IF o.res # "ok" \/ safemode THEN {o}
               ELSE Raise(GbpBuildpackage(o.r, conf, inp.chlog, tag),
                          Error, "OpError")
               : o \in s2}

\* no ppa, no changes file, or the operator declines: OpError; a failed dput
\* is only logged
_upload_pkg(r, safemode, conf, inp) ==
    IF ~inp.ppa \/ ~inp.changes \/ ~inp.yes
    THEN {Out(r, "OpError")} ELSE {Out(r, "ok")}

\* _test_pkg after get_latest_tag_version returned latest_release_ver
PrepareAndBuild(r, safemode, conf, inp, latest_release_ver) ==
    LET s1 == verify_create_head_tag(r, safemode, conf.releaseBranch,
                                     conf.releaseTagType,
                                     <<get_next_version(latest_release_ver)>>,
                                     inp.answer)
        s2 == UNION {IF o.res # "ok" THEN {o}
                     ELSE _commit_release(o.r, safemode, conf, inp) : o \in s1}
        s3 == UNION {IF o.res # "ok" THEN {o}
                     ELSE _update_changelog(o.r, safemode, conf,
                              <<VerifyVersion(r, conf.releaseBranch,
                                    conf.releaseTagType,
                                    <<get_next_version(latest_release_ver)>>,
                                    inp.answer)>>,
                              FALSE, TRUE)
                     : o \in s2}
    IN  UNION {IF o.res # "ok" THEN {o}
               ELSE _build(o.r, safemode, conf, FALSE, inp) : o \in s3}

_test_pkg(r, safemode, conf, inp) ==
    Raise(UNION {IF o.res # "ok" THEN {o}
                 ELSE UNION {PrepareAndBuild(o.r, safemode, conf, inp, v)
                             : v \in LatestTagVersions(o.r, conf.releaseBranch,
                                                       conf.releaseTagType)}
                 : o \in get_latest_tag_version(r, conf.releaseBranch,
                                                conf.releaseTagType)},
          Error, "OpError")

_restore_repository(r, b, safemode, inp) ==
    Raise(restore_backup(r, b, safemode, <<>>, <<>>, inp.choice),
          Error, "OpError")

_create_config(r, safemode) ==
    Raise(create_ex_config(r, safemode), Error, "OpError")

\* git clone -b <remote_src_branch> <url>: a new repository on the source
\* branch; the directory is the one named after the repository
ClonedRepo ==
    [isRepo |-> TRUE, branches |-> {_MASTER_BRANCH}, branch |-> _MASTER_BRANCH,
     hist |-> [x \in Branches |-> IF x = _MASTER_BRANCH THEN <<1>> ELSE <<>>],
     wt |-> {}, stash |-> <<>>, tags |-> {}, conf |-> "missing", next |-> 2]

\* git clone fails when the directory holds something already
GitClone(r, safemode) ==
    IF safemode THEN {Out(r, "ok")}
    ELSE IF r.isRepo THEN {Out(r, "CommandError")}
    ELSE {Out(ClonedRepo, "ok"), Out(r, "CommandError")}

\* chdir(rep_name): without a repository the directory may be missing, and
\* chdir raises an OSError, which is no Error
Chdir(r) ==
    IF r.isRepo THEN {Out(r, "ok")} ELSE {Out(r, "ok"), Out(r, "OSError")}

\* git branch <branch_name>, switch_branch(remote_src_branch); nothing when
\* the name is the one of the source branch
CreateBranch(r, safemode, branch_name, remote_src_branch) ==
    IF branch_name = remote_src_branch THEN {Out(r, "ok")}
    ELSE IF safemode THEN switch_branch(r, remote_src_branch)
    ELSE IF ~r.isRepo \/ branch_name \in r.branches
    THEN {Out(r, "CommandError")}
    ELSE switch_branch([r EXCEPT !.branches = r.branches \cup {branch_name},
                                 !.hist[branch_name] = r.hist[r.branch]],
                       remote_src_branch)

\* git rm -rf --ignore-unmatch *: the tracked files are removed from the
\* index and the working tree
GitRm(r) ==
    IF ~r.isRepo THEN {Out(r, "CommandError")}
    ELSE {Out([r EXCEPT !.wt = r.wt \cup {"m"}], "ok")}

\* "Clean upstream branch" and "Cleaning debian branch": the git rm of the
\* upstream branch is under the safemode test, the one of the debian branch
\* is not
CleanBranches(r, safemode, conf) ==
    LET s5 == switch_branch(r, conf.upstreamBranch)
        s6 == UNION {IF o.res # "ok" \/ safemode THEN {o} ELSE GitRm(o.r)
                     : o \in s5}
        s7 == UNION {IF o.res # "ok" THEN {o}
                     ELSE commit_changes(o.r, safemode) : o \in s6}
        s8 == UNION {IF o.res # "ok" THEN {o}
                     ELSE switch_branch(o.r, conf.debianBranch) : o \in s7}
    IN  UNION {IF o.res # "ok" THEN {o} ELSE GitRm(o.r) : o \in s8}

\* echo y | dh_make ... --createorig: the example debian/ files
DhMake(r) ==
    {Out([r EXCEPT !.wt = r.wt \cup {"u"}], "ok"), Out(r, "CommandError")}

\* the branch names are the defaults of the configuration, the remote source
\* branch is master
_clone_source_repository(r, safemode, conf, inp) ==
    LET s1 == GitClone(r, safemode)
        s2 == UNION {IF o.res # "ok" THEN {o} ELSE Chdir(o.r) : o \in s1}
        s3 == UNION {IF o.res # "ok" THEN {o}
                     ELSE CreateBranch(o.r, safemode, conf.releaseBranch,
                                       _MASTER_BRANCH) : o \in s2}
        s4 == UNION {IF o.res # "ok" THEN {o}
                     ELSE CreateBranch(o.r, safemode, conf.upstreamBranch,
                                       _MASTER_BRANCH) : o \in s3}
        s5 == UNION {IF o.res # "ok" THEN {o}
                     ELSE CreateBranch(o.r, safemode, conf.debianBranch,
                                       _MASTER_BRANCH) : o \in s4}
        s9 == UNION {IF o.res # "ok" THEN {o}
                     ELSE CleanBranches(o.r, safemode, conf) : o \in s5}
        s10 == UNION {IF o.res # "ok" \/ ~inp.yes \/ safemode THEN {o}
                      ELSE DhMake(o.r) : o \in s9}
        s11 == UNION {IF o.res # "ok" THEN {o}
                      ELSE commit_changes(o.r, safemode) : o \in s10}
        s12 == UNION {IF o.res # "ok" THEN {o}
                      ELSE switch_branch(o.r, conf.releaseBranch) : o \in s11}
        s13 == UNION {IF o.res # "ok" THEN {o}
                      ELSE _create_config(o.r, safemode) : o \in s12}
    IN  Raise(UNION {IF o.res # "ok" THEN {o}
                     ELSE commit_changes(o.r, safemode) : o \in s13},
              Error, "OpError")

_exec_action(a, r, b, safemode, conf, inp) ==
    CASE a = "test-pkg" -> _test_pkg(r, safemode, conf, inp)
      [] a = "commit-release" -> _commit_release(r, safemode, conf, inp)
      [] a = "update-changelog" ->
            _update_changelog(r, safemode, conf, <<>>, TRUE, TRUE)
      [] a = "test-build" -> _build(r, safemode, conf, FALSE, inp)
      [] a = "commit-build" -> _build(r, safemode, conf, TRUE, inp)
      [] a = "upload" -> _upload_pkg(r, safemode, conf, inp)
      [] a = "restore" -> _restore_repository(r, b, safemode, inp)
      [] a = "clone" -> _clone_source_repository(r, safemode, conf, inp)
      [] a = "config" -> _create_config(r, safemode)

(***************************************************************************)
(* The states a run can start in.                                          *)
(***************************************************************************)
\* a directory that is no git repository
NoRepo ==
    [isRepo |-> FALSE, branches |-> {}, branch |-> "",
     hist |-> [x \in Branches |-> <<>>], wt |-> {}, stash |-> <<>>,
     tags |-> {}, conf |-> "missing", next |-> 1]

\* release, upstream and debian HEADs: untagged; a release newer than the
\* last import; a release already imported
InitTags ==
    {{},
     {[type |-> "release", ver |-> 2, commit |-> 1],
      [type |-> "upstream", ver |-> 1, commit |-> 2]},
     {[type |-> "release", ver |-> 1, commit |-> 1],
      [type |-> "upstream", ver |-> 1, commit |-> 2]}}

\* a stash entry of the operator's own, made before the run
OwnStash == [name |-> <<0>>, changes |-> {"m"}, base |-> 1]

InitReps ==
    {NoRepo} \cup
    {[isRepo |-> TRUE, branches |-> bs, branch |-> b,
      hist |-> [x \in Branches |->
                  CASE x = "upstream" -> <<1, 2>>
                    [] x = "debian" -> IF x \in bs THEN <<1, 3>> ELSE <<>>
                    [] OTHER -> <<1>>],
      wt |-> w, stash |-> st, tags |-> tg, conf |-> cf, next |-> 4]
     : bs \in {Branches, Branches \ {"debian"}},
       b \in {"master", "debian", "work"},
       w \in {{}, {"m"}, {"m", "u"}},
       st \in {<<>>, <<OwnStash>>},
       tg \in InitTags,
       cf \in {"ok", "missing"}}

InitBaks ==
    {[n \in names |-> CHOOSE r \in InitReps :
                        /\ r.isRepo /\ r.branches = Branches
                        /\ r.branch = "master" /\ r.wt = {} /\ r.stash = <<>>
                        /\ r.tags = {} /\ r.conf = "ok"]
     : names \in {{}, {TarName("commit-release", 0)}}}

\* for clone the directory is the one the repository is cloned into
RunActions == Action

Inputs(a) ==
    [answer : IF a \in {"test-pkg", "commit-release"}
              THEN {<<>>} \cup {<<v>> : v \in Versions} ELSE {<<>>},
     chlog : IF a \in {"test-pkg", "test-build", "commit-build"}
             THEN 0..(MaxVer + 1) ELSE {0},
     ppa : IF a = "upload" THEN BOOLEAN ELSE {FALSE},
     changes : IF a = "upload" THEN BOOLEAN ELSE {FALSE},
     yes : IF a \in {"upload", "clone"} THEN BOOLEAN ELSE {FALSE},
     choice : IF a = "restore"
              THEN {<<>>} \cup {<<i>> : i \in 0..(Cardinality(DOMAIN bak) - 1)}
              ELSE {<<>>}]

Call(op, ok) == [op |-> op, ok |-> ok]

Init ==
    /\ pc = "add_backup"
    /\ action \in RunActions
    /\ flags \in [safemode : BOOLEAN]
    /\ options \in [norestore : BOOLEAN]
    /\ rep \in InitReps
    /\ rep.isRepo => rep.branch \in rep.branches
    /\ bak \in InitBaks
    /\ bak_name = <<>>
    /\ init_data = [run_action |-> TRUE, conf |-> <<>>, restore_data |-> <<>>]
    /\ calls = <<>>
    /\ status = "run"
    /\ rep0 = rep
    /\ fail = [step |-> "", rep |-> rep]
    /\ body_reps = [pre |-> rep, post |-> rep]
    /\ args = <<>>
    /\ ret = <<>>
    /\ fs = <<>>

(***************************************************************************)
(* gbpx.py: _execute and _exec_init, cut at their calls.                   *)
(***************************************************************************)
\* _execute whose handler of add_backup's OpError logs it and goes on
AddBackup_go_on ==
    /\ pc = "add_backup"
    /\ IF _ACTION_CONF[action].is_repository_based
       THEN \E o \in add_backup(rep, bak, flags.safemode, action, 1) :
              /\ rep' = o.r
              /\ bak' = o.bak
              /\ calls' = Append(calls, Call("add_backup", o.res = "ok"))
              /\ bak_name' = IF o.res = "ok" THEN <<TarName(action, 1)>>
                             ELSE bak_name
       ELSE UNCHANGED <<rep, bak, calls, bak_name>>
    /\ pc' = "exec_init"
    /\ UNCHANGED <<args, ret, fs>>
    /\ UNCHANGED <<action, flags, options, init_data, rep0, body_reps, status,
                   fail>>

\* _execute: "Create repository backup"
AddBackup ==
    /\ pc = "add_backup"
    /\ IF _ACTION_CONF[action].is_repository_based
       THEN \E o \in add_backup(rep, bak, flags.safemode, action, 1) :
              /\ rep' = o.r
              /\ bak' = o.bak
              /\ calls' = Append(calls, Call("add_backup", o.res = "ok"))
              /\ IF o.res = "ok"
                 THEN /\ bak_name' = <<TarName(action, 1)>>
                      /\ pc' = "exec_init"
                      /\ UNCHANGED <<status, fail>>
                 ELSE \* log_err(flags, err); quit()
                      /\ pc' = "done"
                      /\ status' = "quit"
                      /\ fail' = [step |-> "add_backup", rep |-> o.r]
                      /\ UNCHANGED bak_name
       ELSE /\ pc' = "exec_init"
            /\ UNCHANGED <<rep, bak, calls, bak_name, status, fail>>
    /\ UNCHANGED <<args, ret, fs>>
    /\ UNCHANGED <<action, flags, options, init_data, rep0, body_reps>>

\* _exec_init whose handler of create_temp_commit's Error does not raise
CreateTempCommit_no_raise ==
    /\ pc = "exec_init"
    /\ IF _ACTION_CONF[action].is_repository_based
       THEN \E o \in create_temp_commit(rep, flags.safemode) :
              /\ rep' = o.r
              /\ calls' = Append(calls, Call("create_temp_commit", o.res = "ok"))
              /\ init_data' = [init_data EXCEPT
                                 !.restore_data = <<RestoreData(rep)>>]
              /\ pc' = "load_config"
       ELSE /\ pc' = "exec_action"
            /\ UNCHANGED <<rep, calls, init_data>>
    /\ UNCHANGED <<args, ret, fs>>
    /\ UNCHANGED <<action, flags, options, bak, bak_name, status, rep0, fail,
                   body_reps>>

\* _exec_init: "Save current branch name and any uncommitted changes"
CreateTempCommit ==
    /\ pc = "exec_init"
    /\ IF _ACTION_CONF[action].is_repository_based
       THEN \E o \in create_temp_commit(rep, flags.safemode) :
              /\ rep' = o.r
              /\ calls' = Append(calls, Call("create_temp_commit", o.res = "ok"))
              /\ IF o.res = "ok"
                 THEN /\ init_data' = [init_data EXCEPT
                                         !.restore_data = <<RestoreData(rep)>>]
                      /\ pc' = "load_config"
                      /\ UNCHANGED fail
                 ELSE \* raise OpError()
                      /\ pc' = "recover"
                      /\ fail' = [step |-> "create_temp_commit", rep |-> o.r]
                      /\ UNCHANGED init_data
       ELSE /\ pc' = "exec_action"
            /\ UNCHANGED <<rep, calls, init_data, fail>>
    /\ UNCHANGED <<args, ret, fs>>
    /\ UNCHANGED <<action, flags, options, bak, bak_name, status, rep0,
                   body_reps>>

\* "Try to clean master branch from ignored files": an Error is passed over
CleanIgnored(r, a, safemode) ==
    IF _ACTION_CONF[a].clean
    THEN {Out(c.r, "ok") : c \in clean_repository(r, safemode)}
    ELSE {Out(r, "ok")}

\* _exec_init: "Pre load config"
LoadConfig ==
    /\ pc = "load_config"
    /\ \E o \in switch_branch(rep, _MASTER_BRANCH) :
         IF o.res # "ok"
         THEN /\ rep' = o.r
              /\ calls' = Append(calls, Call("switch_branch", FALSE))
              /\ pc' = "recover"
              /\ fail' = [step |-> "switch_branch", rep |-> o.r]
              /\ UNCHANGED init_data
         ELSE \E c \in CleanIgnored(o.r, action, flags.safemode) :
              \E g \in get_config(c.r) :
                /\ rep' = g.r
                /\ calls' = calls \o <<Call("switch_branch", TRUE),
                                       Call("get_config", g.res = "ok")>>
                /\ IF g.res = "ok"
                   THEN /\ init_data' = [init_data EXCEPT !.conf = <<_CONFIG>>]
                        /\ pc' = "conflict_check"
                        /\ UNCHANGED fail
                   ELSE /\ pc' = "recover"
                        /\ fail' = [step |-> "get_config", rep |-> g.r]
                        /\ UNCHANGED init_data
    /\ UNCHANGED <<args, ret, fs>>
    /\ UNCHANGED <<action, flags, options, bak, bak_name, status, rep0,
                   body_reps>>

\* [conf[b] for b in _ACTION_CONF[action].critical_branches]
CriticalBranches(a, conf) == {conf[b] : b \in _ACTION_CONF[a].critical_branches}

\* run_action of _exec_init: "Check for command conflicts with uncommitted
\* changes"; get_branch() is the branch current at the check
RunAction(r, a, conf, restore_data) ==
    LET changes_committed == restore_data.stash # <<>> IN
    ~(/\ changes_committed
      /\ r.branch \in CriticalBranches(a, conf))

ConflictCheck ==
    /\ pc = "conflict_check"
    /\ init_data' = [init_data EXCEPT
                       !.run_action = RunAction(rep, action, init_data.conf[1],
                                                init_data.restore_data[1])]
    /\ calls' = Append(calls, Call("conflict_check",
                                   init_data'.run_action))
    /\ pc' = "exec_action"
    /\ UNCHANGED <<args, ret, fs>>
    /\ UNCHANGED <<action, flags, options, rep, bak, bak_name, status, rep0,
                   fail, body_reps>>

\* _execute: "Execute action if allowed"
ExecAction ==
    /\ pc = "exec_action"
    /\ init_data.run_action
    /\ \E inp \in Inputs(action) :
       \E o \in _exec_action(action, rep, bak, flags.safemode,
                             IF init_data.conf = <<>> THEN _CONFIG
                             ELSE init_data.conf[1], inp) :
         /\ rep' = o.r
         /\ calls' = Append(calls, Call("action", o.res = "ok"))
         /\ body_reps' = [pre |-> rep, post |-> o.r]
         /\ CASE o.res = "ok" ->
                   /\ pc' = "post"
                   /\ UNCHANGED <<status, fail>>
              [] o.res = "OpError" ->
                   /\ pc' = "recover"
                   /\ fail' = [step |-> "action", rep |-> o.r]
                   /\ UNCHANGED status
              [] OTHER ->
                   \* no handler in _execute: the error ends the process
                   /\ pc' = "done"
                   /\ status' = "uncaught"
                   /\ fail' = [step |-> "action", rep |-> o.r]
    /\ UNCHANGED <<args, ret, fs>>
    /\ UNCHANGED <<action, flags, options, bak, bak_name, init_data, rep0>>

\* the action was refused by the conflict check
SkipAction ==
    /\ pc = "exec_action"
    /\ ~init_data.run_action
    /\ pc' = "post"
    /\ UNCHANGED <<args, ret, fs>>
    /\ UNCHANGED <<action, flags, options, rep, bak, bak_name, init_data, calls,
                   status, rep0, fail, body_reps>>

\* _execute without the try around the restore_backup after the action: its
\* OpError reaches the handler of the outer try
Restore_no_inner_try ==
    /\ pc = "post"
    /\ IF _ACTION_CONF[action].restore_backup
       THEN \E o \in restore_backup(rep, bak, flags.safemode, <<>>, bak_name,
                                    <<>>) :
              /\ rep' = o.r
              /\ calls' = Append(calls, Call("restore_backup", o.res = "ok"))
              /\ pc' = IF o.res = "ok" THEN "done" ELSE "recover"
              /\ status' = IF o.res = "ok" THEN "ok" ELSE status
       ELSE IF _ACTION_CONF[action].is_repository_based
       THEN \E o \in restore_temp_commit(rep, flags.safemode,
                                         init_data.restore_data[1]) :
              /\ rep' = o.r
              /\ calls' = Append(calls, Call("restore_temp_commit",
                                             o.res = "ok"))
              /\ pc' = "done"
              /\ status' = "ok"
       ELSE /\ pc' = "done"
            /\ status' = "ok"
            /\ UNCHANGED <<rep, calls>>
    /\ UNCHANGED <<args, ret, fs>>
    /\ UNCHANGED <<action, flags, options, bak, bak_name, init_data, rep0, fail,
                   body_reps>>

\* _execute whose restore after the action is the one of the backup only
Restore_backup_only ==
    /\ pc = "post"
    /\ IF _ACTION_CONF[action].restore_backup
       THEN \E o \in restore_backup(rep, bak, flags.safemode, <<>>, bak_name,
                                    <<>>) :
              /\ rep' = o.r
              /\ calls' = Append(calls, Call("restore_backup", o.res = "ok"))
       ELSE UNCHANGED <<rep, calls>>
    /\ pc' = "done"
    /\ status' = "ok"
    /\ UNCHANGED <<args, ret, fs>>
    /\ UNCHANGED <<action, flags, options, bak, bak_name, init_data, rep0, fail,
                   body_reps>>

\* _execute without the try around restore_temp_commit: its OpError reaches
\* the handler of the outer try
Restore_no_reset_try ==
    /\ pc = "post"
    /\ IF _ACTION_CONF[action].restore_backup
       THEN \E o \in restore_backup(rep, bak, flags.safemode, <<>>, bak_name,
                                    <<>>) :
              /\ rep' = o.r
              /\ calls' = Append(calls, Call("restore_backup", o.res = "ok"))
              /\ pc' = "done"
              /\ status' = "ok"
       ELSE IF _ACTION_CONF[action].is_repository_based
       THEN \E o \in restore_temp_commit(rep, flags.safemode,
                                         init_data.restore_data[1]) :
              /\ rep' = o.r
              /\ calls' = Append(calls, Call("restore_temp_commit",
                                             o.res = "ok"))
              /\ pc' = IF o.res = "ok" THEN "done" ELSE "recover"
              /\ status' = IF o.res = "ok" THEN "ok" ELSE status
       ELSE /\ pc' = "done"
            /\ status' = "ok"
            /\ UNCHANGED <<rep, calls>>
    /\ UNCHANGED <<args, ret, fs>>
    /\ UNCHANGED <<action, flags, options, bak, bak_name, init_data, rep0, fail,
                   body_reps>>

\* _execute: "Restore if required by action", "Reset if action is repository
\* based"; a failure is logged
Restore ==
    /\ pc = "post"
    /\ IF _ACTION_CONF[action].restore_backup
       THEN \E o \in restore_backup(rep, bak, flags.safemode, <<>>, bak_name,
                                    <<>>) :
              /\ rep' = o.r
              /\ calls' = Append(calls, Call("restore_backup", o.res = "ok"))
       ELSE IF _ACTION_CONF[action].is_repository_based
       THEN \E o \in restore_temp_commit(rep, flags.safemode,
                                         init_data.restore_data[1]) :
              /\ rep' = o.r
              /\ calls' = Append(calls, Call("restore_temp_commit",
                                             o.res = "ok"))
       ELSE UNCHANGED <<rep, calls>>
    /\ pc' = "done"
    /\ status' = "ok"
    /\ UNCHANGED <<args, ret, fs>>
    /\ UNCHANGED <<action, flags, options, bak, bak_name, init_data, rep0, fail,
                   body_reps>>

\* the recovery of _execute without its test of Option.NO_RESTORE
Recover_always ==
    /\ pc = "recover"
    /\ IF _ACTION_CONF[action].is_repository_based
       THEN \E o \in restore_backup(rep, bak, flags.safemode, <<>>, bak_name,
                                    <<>>) :
              /\ rep' = o.r
              /\ calls' = Append(calls, Call("restore_backup", o.res = "ok"))
       ELSE UNCHANGED <<rep, calls>>
    /\ pc' = "done"
    /\ status' = "failed"
    /\ UNCHANGED <<args, ret, fs>>
    /\ UNCHANGED <<action, flags, options, bak, bak_name, init_data, rep0, fail,
                   body_reps>>

\* the recovery of _execute removing the archive it has restored
Recover_drop_backup ==
    /\ pc = "recover"
    /\ IF _ACTION_CONF[action].is_repository_based /\ ~options.norestore
       THEN \E o \in restore_backup(rep, bak, flags.safemode, <<>>, bak_name,
                                    <<>>) :
              /\ rep' = o.r
              /\ calls' = Append(calls, Call("restore_backup", o.res = "ok"))
              /\ bak' = [n \in DOMAIN bak \ {bak_name[1]} |-> bak[n]]
       ELSE UNCHANGED <<rep, calls, bak>>
    /\ pc' = "done"
    /\ status' = "failed"
    /\ UNCHANGED <<args, ret, fs>>
    /\ UNCHANGED <<action, flags, options, bak_name, init_data, rep0, fail,
                   body_reps>>

\* the recovery of _execute without its test of is_repository_based
Recover_any_action ==
    /\ pc = "recover"
    /\ IF ~options.norestore
       THEN \E o \in restore_backup(rep, bak, flags.safemode, <<>>, bak_name,
                                    <<>>) :
              /\ rep' = o.r
              /\ calls' = Append(calls, Call("restore_backup", o.res = "ok"))
       ELSE UNCHANGED <<rep, calls>>
    /\ pc' = "done"
    /\ status' = "failed"
    /\ UNCHANGED <<args, ret, fs>>
    /\ UNCHANGED <<action, flags, options, bak, bak_name, init_data, rep0, fail,
                   body_reps>>

\* _execute: except OpError, "Force a backup restore if command has failed"
Recover ==
    /\ pc = "recover"
    /\ IF _ACTION_CONF[action].is_repository_based /\ ~options.norestore
       THEN \E o \in restore_backup(rep, bak, flags.safemode, <<>>, bak_name,
                                    <<>>) :
              /\ rep' = o.r
              /\ calls' = Append(calls, Call("restore_backup", o.res = "ok"))
       ELSE UNCHANGED <<rep, calls>>
    /\ pc' = "done"
    /\ status' = "failed"
    /\ UNCHANGED <<args, ret, fs>>
    /\ UNCHANGED <<action, flags, options, bak, bak_name, init_data, rep0, fail,
                   body_reps>>

Next ==
    \/ AddBackup
    \/ CreateTempCommit
    \/ LoadConfig
    \/ ConflictCheck
    \/ ExecAction
    \/ SkipAction
    \/ Restore
    \/ Recover

Spec == Init /\ [][Next]_vars

\* the exit status of the process: quit() and the return of _execute end it
\* with 0, an exception no handler catches ends it with 1
ExitStatus == CASE status = "uncaught" -> 1 [] OTHER -> 0

(***************************************************************************)
(* gbpxutil.py: create_temp_commit and restore_temp_commit called directly,*)
(* one after the other, in any repository.                                 *)
(***************************************************************************)
MaxStash == 2

\* the stash entries a repository holds before the calls
StashEntries ==
    {[name |-> <<0>>, changes |-> c, base |-> 1] : c \in {{"m"}, {"u"}}}

TempCommitReps ==
    {NoRepo} \cup
    {[isRepo |-> TRUE, branches |-> Branches, branch |-> b,
      hist |-> [x \in Branches |->
                  CASE x = "upstream" -> <<1, 2>>
                    [] x = "debian" -> <<1, 3>>
                    [] OTHER -> <<1>>],
      wt |-> w, stash |-> st, tags |-> {}, conf |-> "ok", next |-> 4]
     : b \in Branches,
       w \in SUBSET Changes,
       st \in UNION {[1..n -> StashEntries] : n \in 0..MaxStash}}

InitTempCommit ==
    /\ pc = "create"
    /\ action = "config"
    /\ flags \in [safemode : BOOLEAN]
    /\ options = [norestore |-> FALSE]
    /\ rep \in TempCommitReps
    /\ bak = <<>>
    /\ bak_name = <<>>
    /\ init_data = [run_action |-> TRUE, conf |-> <<>>, restore_data |-> <<>>]
    /\ calls = <<>>
    /\ status = "run"
    /\ rep0 = rep
    /\ fail = [step |-> "", rep |-> rep]
    /\ body_reps = [pre |-> rep, post |-> rep]
    /\ args = <<>>
    /\ ret = <<>>
    /\ fs = <<>>

\* restore_data = create_temp_commit(flags)
TcCreate ==
    /\ pc = "create"
    /\ \E o \in create_temp_commit(rep, flags.safemode) :
         /\ rep' = o.r
         /\ calls' = Append(calls, Call("create_temp_commit", o.res = "ok"))
         /\ IF o.res = "ok"
            THEN /\ init_data' = [init_data EXCEPT
                                    !.restore_data = <<RestoreData(rep)>>]
                 /\ pc' = "restore"
            ELSE /\ pc' = "done"
                 /\ UNCHANGED init_data
    /\ UNCHANGED <<args, ret, fs>>
    /\ UNCHANGED <<action, flags, options, bak, bak_name, status, rep0, fail,
                   body_reps>>

\* restore_temp_commit(flags, restore_data), right after create_temp_commit
TcRestore ==
    /\ pc = "restore"
    /\ \E o \in restore_temp_commit(rep, flags.safemode,
                                    init_data.restore_data[1]) :
         /\ rep' = o.r
         /\ calls' = Append(calls, Call("restore_temp_commit", o.res = "ok"))
         /\ body_reps' = [pre |-> rep, post |-> o.r]
         /\ pc' = IF o.res = "ok" THEN "again" ELSE "done"
    /\ UNCHANGED <<args, ret, fs>>
    /\ UNCHANGED <<action, flags, options, bak, bak_name, init_data, status,
                   rep0, fail>>

\* restore_temp_commit(flags, restore_data) a second time
TcRestoreAgain ==
    /\ pc = "again"
    /\ \E o \in restore_temp_commit(rep, flags.safemode,
                                    init_data.restore_data[1]) :
         /\ rep' = o.r
         /\ calls' = Append(calls, Call("restore_temp_commit", o.res = "ok"))
         /\ pc' = "done"
    /\ UNCHANGED <<args, ret, fs>>
    /\ UNCHANGED <<action, flags, options, bak, bak_name, init_data, status,
                   rep0, fail, body_reps>>

\* restore_temp_commit(flags, (branch, commit, None)) in any repository
TcRestoreNoStash ==
    /\ pc = "create"
    /\ \E restore_data \in [branch : Branches, commit : {1}, stash : {<<>>}] :
       \E o \in restore_temp_commit(rep, flags.safemode, restore_data) :
         /\ rep' = o.r
         /\ init_data' = [init_data EXCEPT !.restore_data = <<restore_data>>]
         /\ calls' = Append(calls, Call("restore_temp_commit", o.res = "ok"))
         /\ pc' = "done"
    /\ UNCHANGED <<args, ret, fs>>
    /\ UNCHANGED <<action, flags, options, bak, bak_name, status, rep0, fail,
                   body_reps>>

NextTempCommit ==
    \/ TcCreate
    \/ TcRestore
    \/ TcRestoreAgain
    \/ TcRestoreNoStash

SpecTempCommit == InitTempCommit /\ [][NextTempCommit]_vars

(***************************************************************************)
(* gitutil.py, gbpxutil.py, ioutil.py: the utility functions on strings,   *)
(* each called on its own.  A string is a sequence of characters.          *)
(***************************************************************************)
MaxVerLen == 3

\* the strings of at most n characters out of chars
Strings(chars, n) == UNION {[1..k -> chars] : k \in 0..n}

\* the characters of the model in the order of their code points
CodePoints ==
    <<" ", "+", "-", ".", "/", "0", "1", "2", "3", "4", "5", "6", "7", "8",
      "9", "V", "_", "a", "r", "v", "~">>

Ord(c) == CHOOSE i \in 1..Len(CodePoints) : CodePoints[i] = c

Digits == {"0", "1", "2", "3", "4", "5", "6", "7", "8", "9"}

\* Python's s1 < s2 on strings: by code point, a proper prefix is less
RECURSIVE StrLess(_, _)
StrLess(s1, s2) ==
    IF s2 = <<>> THEN FALSE
    ELSE IF s1 = <<>> THEN TRUE
    ELSE IF Head(s1) # Head(s2) THEN Ord(Head(s1)) < Ord(Head(s2))
    ELSE StrLess(Tail(s1), Tail(s2))

\* Python's l1 < l2 on lists of strings
RECURSIVE ListLess(_, _)
ListLess(l1, l2) ==
    IF l2 = <<>> THEN FALSE
    ELSE IF l1 = <<>> THEN TRUE
    ELSE IF Head(l1) # Head(l2) THEN StrLess(Head(l1), Head(l2))
    ELSE ListLess(Tail(l1), Tail(l2))

\* findall(r'\d+', s): the maximal runs of digits of s, as strings
RECURSIVE DigitRuns(_)
DigitRuns(s) ==
    IF s = <<>> THEN <<>>
    ELSE IF Head(s) \notin Digits THEN DigitRuns(Tail(s))
    ELSE IF Len(s) > 1 /\ s[2] \in Digits
         THEN <<<<Head(s)>> \o Head(DigitRuns(Tail(s)))>>
              \o Tail(DigitRuns(Tail(s)))
         ELSE <<<<Head(s)>>>> \o DigitRuns(Tail(s))

\* compare_versions without the sort: -1 for any two different strings
compare_versions_unsorted(ver1, ver2) ==
    IF ver1 = ver2 THEN 0 ELSE -1

\* ver_s.sort(key=findall) is stable: ver2 comes first only if its key is less
compare_versions(ver1, ver2) ==
    LET ver_s == IF ListLess(DigitRuns(ver2), DigitRuns(ver1))
                 THEN <<ver2, ver1>> ELSE <<ver1, ver2>>
    IN  IF ver1 = ver2 THEN 0
        ELSE IF ver_s[1] = ver1 THEN -1
        ELSE 1

\* int(d) for a run of digits d
RECURSIVE IntValue(_)
IntValue(d) ==
    IF d = <<>> THEN 0
    ELSE 10 * IntValue(SubSeq(d, 1, Len(d) - 1)) + (Ord(d[Len(d)]) - Ord("0"))

\* int(x) succeeds on digits with an optional sign (of the characters here)
IsInt(x) ==
    LET d == IF x # <<>> /\ Head(x) = "-" THEN Tail(x) ELSE x
    IN  d # <<>> /\ \A i \in 1..Len(d) : d[i] \in Digits

ParseInt(x) == IF Head(x) = "-" THEN 0 - IntValue(Tail(x)) ELSE IntValue(x)

\* str(n)
RECURSIVE Str(_)
Str(n) ==
    IF n < 0 THEN <<"-">> \o Str(0 - n)
    ELSE IF n < 10 THEN <<CodePoints[Ord("0") + n]>>
    ELSE Str(n \div 10) \o <<CodePoints[Ord("0") + (n % 10)]>>

\* s.split(c)
Split(s, c) ==
    LET seps == {i \in 1..Len(s) : s[i] = c}
        cut(k) ==
            IF k = 0 THEN 0
            ELSE IF k > Cardinality(seps) THEN Len(s) + 1
            ELSE CHOOSE p \in seps : Cardinality({i \in seps : i < p}) = k - 1
    IN  [k \in 1..(Cardinality(seps) + 1) |->
           SubSeq(s, cut(k - 1) + 1, cut(k) - 1)]

\* the index of the first c in s, 0 if there is none
IndexOf(s, c) ==
    IF \E i \in 1..Len(s) : s[i] = c
    THEN CHOOSE i \in 1..Len(s) : s[i] = c /\ \A j \in 1..(i - 1) : s[j] # c
    ELSE 0

\* s.split(c, 1)
SplitOnce(s, c) ==
    IF IndexOf(s, c) = 0 THEN <<s>>
    ELSE <<SubSeq(s, 1, IndexOf(s, c) - 1), SubSeq(s, IndexOf(s, c) + 1, Len(s))>>

\* c.join(l)
RECURSIVE Join(_, _)
Join(l, c) ==
    IF l = <<>> THEN <<>>
    ELSE IF Len(l) = 1 THEN l[1]
    ELSE l[1] \o <<c>> \o Join(Tail(l), c)

\* get_next_version on the version string: int() raises ValueError, which
\* is no Error, so "except Error" lets it through
GetNextVersion(version) ==
    LET base_part == SplitOnce(version, "~")
        ver_part == Split(base_part[1], ".")
    IN  IF ~IsInt(ver_part[Len(ver_part)]) THEN [res |-> "ValueError"]
        ELSE [res |-> "ok",
              val |-> Join([ver_part EXCEPT ![Len(ver_part)] =
                                      Str(ParseInt(ver_part[Len(ver_part)]) + 1)], ".")
                      \o (IF Len(base_part) > 1 THEN <<"-">> \o base_part[2]
                          ELSE <<>>)]

VersionChars == {"0", "1", "9", ".", "-", "~", "a"}

MaxTagLen == 4

MaxTypeLen == 2

\* the pattern r"^" + tag_type + r"/(.*$)" does not compile: a '+' with
\* nothing to repeat, or repeated three times
PatternError(tag_type) ==
    /\ tag_type # <<>>
    /\ \/ Head(tag_type) = "+"
       \/ \E i \in 1..(Len(tag_type) - 2) :
            tag_type[i] = "+" /\ tag_type[i + 1] = "+" /\ tag_type[i + 2] = "+"

\* "++" is a possessive repeat from Python 3.11 on, and an error before
DoublePlus(tag_type) ==
    \E i \in 1..(Len(tag_type) - 1) : tag_type[i] = "+" /\ tag_type[i + 1] = "+"

\* tag_type read as a pattern: its characters, each with its repeat
RECURSIVE Atoms(_)
Atoms(t) ==
    IF t = <<>> THEN <<>>
    ELSE IF Len(t) >= 3 /\ t[2] = "+" /\ t[3] = "+"
         THEN <<[c |-> t[1], q |-> "++"]>> \o Atoms(SubSeq(t, 4, Len(t)))
    ELSE IF Len(t) >= 2 /\ t[2] = "+"
         THEN <<[c |-> t[1], q |-> "+"]>> \o Atoms(SubSeq(t, 3, Len(t)))
    ELSE <<[c |-> t[1], q |-> "1"]>> \o Atoms(Tail(t))

\* how many times c stands in s from position i on
RECURSIVE Run(_, _, _)
Run(s, i, c) ==
    IF i > Len(s) \/ s[i] # c THEN 0 ELSE 1 + Run(s, i + 1, c)

\* the positions of s at which a match of atoms begun at i can end
RECURSIVE MatchEnds(_, _, _)
MatchEnds(atoms, s, i) ==
    IF atoms = <<>> THEN {i}
    ELSE IF Run(s, i, Head(atoms).c) = 0 THEN {}
    ELSE IF Head(atoms).q = "1" THEN MatchEnds(Tail(atoms), s, i + 1)
    ELSE IF Head(atoms).q = "+"
         THEN UNION {MatchEnds(Tail(atoms), s, i + k)
                     : k \in 1..Run(s, i, Head(atoms).c)}
    ELSE MatchEnds(Tail(atoms), s, i + Run(s, i, Head(atoms).c))

\* the positions of the '/' of the pattern in a match of tag
SlashAt(tag, tag_type) ==
    {j \in MatchEnds(Atoms(tag_type), tag, 1) : j <= Len(tag) /\ tag[j] = "/"}

\* get_version_from_tag returning tag_ver.group(0), the whole match
get_version_from_tag_whole_match(tag, tag_type) ==
    IF PatternError(tag_type) THEN {[res |-> "re.error"]}
    ELSE (IF DoublePlus(tag_type) THEN {[res |-> "re.error"]} ELSE {})
         \cup {IF SlashAt(tag, tag_type) = {} THEN [res |-> "GitError"]
               ELSE [res |-> "ok", val |-> tag]}

\* match(r"^" + tag_type + r"/(.*$)", tag): group(1) is the rest of the tag
\* behind the '/' (no character of the model is a line break)
get_version_from_tag(tag, tag_type) ==
    IF PatternError(tag_type) THEN {[res |-> "re.error"]}
    ELSE (IF DoublePlus(tag_type) THEN {[res |-> "re.error"]} ELSE {})
         \cup {IF SlashAt(tag, tag_type) = {} THEN [res |-> "GitError"]
               ELSE [res |-> "ok",
                     val |-> SubSeq(tag, 1 + CHOOSE j \in SlashAt(tag, tag_type) : TRUE,
                                    Len(tag))]}

TagChars == {"r", "a", "+", "/", "1"}

TypeChars == {"r", "a", "+"}

MaxHeadVerLen == 2

MaxHeadTags == 2

\* git tag --points-at HEAD lists the tags in the order of their names
RECURSIVE GitOrder(_)
GitOrder(tags) ==
    IF tags = {} THEN <<>>
    ELSE <<CHOOSE t \in tags : \A u \in tags \ {t} : StrLess(t, u)>>
         \o GitOrder(tags \ {CHOOSE t \in tags : \A u \in tags \ {t} : StrLess(t, u)})

\* get_head_tags: findall(r"(?m)^" + tag_type + r"/.*$", head_tags)
HeadTagList(head_tags, tag_type) ==
    SelectSeq(head_tags, LAMBDA tag : SlashAt(tag, tag_type) # {})

\* s.split('/')[1].split('-')[0].split('.')
KeyParts(tag) == Split(Split(Split(tag, "/")[2], "-")[1], ".")

\* the key of the sort: [int(v) for v in ...]
SortKey(tag) == [i \in 1..Len(KeyParts(tag)) |-> ParseInt(KeyParts(tag)[i])]

\* Python's l1 < l2 on lists of integers
RECURSIVE IntListLess(_, _)
IntListLess(l1, l2) ==
    IF l2 = <<>> THEN FALSE
    ELSE IF l1 = <<>> THEN TRUE
    ELSE IF Head(l1) # Head(l2) THEN Head(l1) < Head(l2)
    ELSE IntListLess(Tail(l1), Tail(l2))

\* head_tags.sort(key=...) without the sort: the list as git gave it
SortByKey_unsorted(head_tags) ==
    IF \E i \in 1..Len(head_tags) : \E k \in 1..Len(KeyParts(head_tags[i])) :
         ~IsInt(KeyParts(head_tags[i])[k])
    THEN [res |-> "ValueError"]
    ELSE [res |-> "ok", val |-> head_tags]

\* head_tags.sort(key=...): int() raises ValueError; the sort is stable, so
\* the tag at each place is the one with as many tags before it in the
\* order of the keys, tags of equal keys staying in the order of the list
SortByKey(head_tags) ==
    IF \E i \in 1..Len(head_tags) : \E k \in 1..Len(KeyParts(head_tags[i])) :
         ~IsInt(KeyParts(head_tags[i])[k])
    THEN [res |-> "ValueError"]
    ELSE [res |-> "ok",
          val |-> [n \in 1..Len(head_tags) |->
                     head_tags[CHOOSE i \in 1..Len(head_tags) :
                       n = 1 + Cardinality(
                         {j \in 1..Len(head_tags) :
                            \/ IntListLess(SortKey(head_tags[j]), SortKey(head_tags[i]))
                            \/ j < i /\ SortKey(head_tags[j]) = SortKey(head_tags[i])})]]]

\* get_head_tag, given what git tag --points-at HEAD printed
get_head_tag(head_tags, tag_type) ==
    IF HeadTagList(head_tags, tag_type) = <<>> THEN [res |-> "GitError"]
    ELSE IF SortByKey(HeadTagList(head_tags, tag_type)).res # "ok"
         THEN SortByKey(HeadTagList(head_tags, tag_type))
    ELSE [res |-> "ok", val |-> SortByKey(HeadTagList(head_tags, tag_type)).val[1]]

HeadVerChars == {"1", "2", ".", "-"}

\* the subsets of S of at most n elements
RECURSIVE SubsetsUpTo(_, _)
SubsetsUpTo(S, n) ==
    IF n = 0 THEN {{}}
    ELSE {x \cup e : x \in SubsetsUpTo(S, n - 1), e \in {{}} \cup {{y} : y \in S}}

\* what git tag --points-at HEAD prints: tags of type r and a tag of type a
HeadTagLists ==
    {GitOrder(t)
     : t \in SubsetsUpTo({<<"r", "/">> \o v
                          : v \in Strings(HeadVerChars, MaxHeadVerLen)}
                         \cup {<<"a", "/", "1">>},
                         MaxHeadTags)}

MaxOutLen == 2

\* what a command printed: words, blanks and the word 'fatal'
OutChars == {" ", "x", "fatal"}

\* std_output.strip()
RECURSIVE Strip(_)
Strip(s) ==
    IF s = <<>> THEN s
    ELSE IF Head(s) = " " THEN Strip(Tail(s))
    ELSE IF s[Len(s)] = " " THEN Strip(SubSeq(s, 1, Len(s) - 1))
    ELSE s

\* b'fatal' in output
HasFatal(output) == \E i \in 1..Len(output) : output[i] = "fatal"

\* the runs of a command: Popen or communicate raises OSError, or the process
\* ends with a return code (negative when a signal ended it)
CmdRuns ==
    [raises : {"", "Popen", "communicate"},
     returncode : -1..2,
     std_output : Strings(OutChars, MaxOutLen),
     std_err_output : Strings(OutChars, MaxOutLen)]

\* ioutil.exec_cmd: when Popen raises, proc is not bound and proc.kill()
\* raises UnboundLocalError
exec_cmd(run) ==
    IF run.raises = "Popen" THEN [res |-> "UnboundLocalError"]
    ELSE IF run.raises = "communicate" THEN [res |-> "CommandError"]
    ELSE IF HasFatal(run.std_output) \/ HasFatal(run.std_err_output)
            \/ run.returncode >= 1
         THEN [res |-> "CommandError"]
    ELSE [res |-> "ok", val |-> Strip(run.std_output)]

\* the functions of gitutil.py that work on the repository
GitFunctions ==
    {"switch_branch", "get_head_tags", "get_head_commit",
     "is_working_dir_clean", "commit_changes", "stash_changes", "apply_stash",
     "reset_branch", "tag_head", "delete_tag", "clean_repository",
     "get_branch"}

\* check_git_rep: git status
CheckCommands == <<"status">>

\* switch_branch: check_git_rep(), then git checkout
SwitchCommands == CheckCommands \o <<"checkout">>

\* the git commands a function issues when none of them fails, in order
GitCommands(f, safemode) ==
    CASE f = "switch_branch" -> SwitchCommands
      [] f = "get_head_tags" -> SwitchCommands \o <<"tag --points-at">>
      [] f = "get_head_commit" -> SwitchCommands \o <<"rev-parse">>
      [] f = "is_working_dir_clean" -> CheckCommands \o <<"status --porcelain">>
      [] f = "get_branch" -> CheckCommands \o <<"rev-parse --abbrev-ref">>
      [] f = "commit_changes" ->
           CheckCommands \o (IF safemode THEN <<>> ELSE <<"add", "commit">>)
      [] f = "stash_changes" ->
           CheckCommands \o (IF safemode THEN <<>> ELSE <<"stash save">>)
      [] f = "apply_stash" ->
           SwitchCommands
           \o (IF safemode THEN <<>> ELSE <<"stash apply", "stash drop">>)
      [] f = "reset_branch" ->
           SwitchCommands \o (IF safemode THEN <<>> ELSE <<"reset">>)
      [] f = "tag_head" ->
           SwitchCommands \o (IF safemode THEN <<>> ELSE <<"tag">>)
      [] f = "delete_tag" ->
           CheckCommands \o (IF safemode THEN <<>> ELSE <<"tag -d">>)
      [] f = "clean_repository" ->
           IF safemode THEN <<>> ELSE <<"clean -fd", "clean -fX">>

\* a call of the function: outside a repository the first command issued
\* fails, inside one the command fail_at does (none if there is no such
\* command); the CommandError ends the call and is raised as GitError
GitCall(f, safemode, is_rep, fail_at) ==
    LET cmds == GitCommands(f, safemode)
        stop == IF ~is_rep THEN 1 ELSE fail_at
    IN  IF cmds = <<>> \/ stop \notin 1..Len(cmds)
        THEN [res |-> "ok", issued |-> cmds]
        ELSE [res |-> "GitError", issued |-> SubSeq(cmds, 1, stop)]

CompareChars == {"0", "1", "9", "."}

\* the calls of the utility functions that are made (no function of
\* gitutil.py issues more than four commands)
UtilCalls ==
    [fn : {"compare_versions"},
     ver1 : Strings(CompareChars, MaxVerLen),
     ver2 : Strings(CompareChars, MaxVerLen)]
    \cup [fn : {"get_next_version"},
          version : Strings(VersionChars, MaxVerLen)]
    \cup [fn : {"get_head_tag"}, head_tags : HeadTagLists, tag_type : {<<"r">>}]
    \cup [fn : {"exec_cmd"}, run : CmdRuns]
    \cup [fn : GitFunctions, safemode : BOOLEAN, is_rep : BOOLEAN,
          fail_at : 0..4]
    \cup [fn : {"get_version_from_tag"},
          tag : Strings(TagChars, MaxTagLen),
          tag_type : Strings(TypeChars, MaxTypeLen) \ {<<>>}]

InitUtil ==
    /\ pc = "call"
    /\ args \in UtilCalls
    /\ ret = <<>>
    /\ fs = <<>>
    /\ action = "config"
    /\ flags = [safemode |-> FALSE]
    /\ options = [norestore |-> FALSE]
    /\ rep = NoRepo
    /\ bak = <<>>
    /\ bak_name = <<>>
    /\ init_data = [run_action |-> TRUE, conf |-> <<>>, restore_data |-> <<>>]
    /\ calls = <<>>
    /\ status = "run"
    /\ rep0 = rep
    /\ fail = [step |-> "", rep |-> rep]
    /\ body_reps = [pre |-> rep, post |-> rep]

\* the frame of a call of a utility function
UtilFrame ==
    UNCHANGED <<args, action, flags, options, rep, bak, bak_name, init_data,
                calls, status, rep0, fail, body_reps, fs>>

CompareVersions ==
    /\ pc = "call"
    /\ args.fn = "compare_versions"
    /\ ret' = compare_versions(args.ver1, args.ver2)
    /\ pc' = "done"
    /\ UtilFrame

GetNextVersionCall ==
    /\ pc = "call"
    /\ args.fn = "get_next_version"
    /\ ret' = GetNextVersion(args.version)
    /\ pc' = "done"
    /\ UtilFrame

GetVersionFromTag ==
    /\ pc = "call"
    /\ args.fn = "get_version_from_tag"
    /\ \E o \in get_version_from_tag(args.tag, args.tag_type) : ret' = o
    /\ pc' = "done"
    /\ UtilFrame

GetHeadTag ==
    /\ pc = "call"
    /\ args.fn = "get_head_tag"
    /\ ret' = get_head_tag(args.head_tags, args.tag_type)
    /\ pc' = "done"
    /\ UtilFrame

ExecCmd ==
    /\ pc = "call"
    /\ args.fn = "exec_cmd"
    /\ ret' = exec_cmd(args.run)
    /\ pc' = "done"
    /\ UtilFrame

CallGitFunction ==
    /\ pc = "call"
    /\ args.fn \in GitFunctions
    /\ ret' = GitCall(args.fn, args.safemode, args.is_rep, args.fail_at)
    /\ pc' = "done"
    /\ UtilFrame

NextUtil ==
    \/ ExecCmd
    \/ CallGitFunction
    \/ GetHeadTag
    \/ CompareVersions
    \/ GetNextVersionCall
    \/ GetVersionFromTag

SpecUtil == InitUtil /\ [][NextUtil]_vars

(***************************************************************************)
(* gbpxutil.py on tags and files: its functions called on their own.       *)
(***************************************************************************)
MaxCallVerLen == 2

\* prompt_user_input(prompt, True) of the line the operator typed: None
\* (<<>>) for an empty line, else <<input_.lower()>>
prompt_user_input(answer) ==
    IF answer = <<>> THEN <<>>
    ELSE <<[i \in 1..Len(answer) |->
              IF answer[i] = "V" THEN "v" ELSE answer[i]]>>

\* tag_head on the tag strings of the repository: f.head are the tags at the
\* HEAD of the branch, f.other the tags at other commits.  git tag fails
\* when the tag exists already or the name is none git accepts (an empty
\* version, a dot at its beginning or end, two dots).
TagHead(f, safemode, tag) ==
    IF ~f.is_rep THEN [res |-> "GitError", fs |-> f]
    ELSE IF safemode THEN [res |-> "ok", fs |-> f]
    ELSE IF \/ tag \in f.head \cup f.other
            \/ tag[Len(tag)] \in {"/", "."}
            \/ \E i \in 1..(Len(tag) - 1) :
                 tag[i] \in {"/", "."} /\ tag[i + 1] = "."
         THEN [res |-> "GitError", fs |-> f]
    ELSE [res |-> "ok", fs |-> [f EXCEPT !.head = f.head \cup {tag}]]

\* get_head_tag_version: get_head_tag, then get_version_from_tag
GetHeadTagVersion(f, tag_type) ==
    IF ~f.is_rep THEN {[res |-> "GitError"]}
    ELSE IF get_head_tag(GitOrder(f.head), tag_type).res # "ok"
         THEN {get_head_tag(GitOrder(f.head), tag_type)}
    ELSE get_version_from_tag(get_head_tag(GitOrder(f.head), tag_type).val,
                              tag_type)

\* verify_create_head_tag on the tag strings; version_str is <<>> for None,
\* else <<version>>.  A call gives how it ended (res), the tuple it returned
\* (val), the tags it left (fs) and whether the operator was asked.
\* "except Error" makes an OpError of a GitError and lets a ValueError or
\* re.error through.
VerifyCreateHeadTag(f, safemode, tag_type, version_str, answer) ==
    LET asked == version_str = <<>>
        version == IF asked THEN prompt_user_input(answer) ELSE version_str
        tagged == TagHead(f, safemode, tag_type \o <<"/">> \o version[1])
    IN  IF ~f.is_rep
        THEN {[res |-> "OpError", val |-> <<>>, fs |-> f, asked |-> FALSE]}
        ELSE IF HeadTagList(GitOrder(f.head), tag_type) # <<>>
        THEN {IF o.res = "ok"
              THEN [res |-> "ok",
                    val |-> <<o.val, tag_type \o <<"/">> \o o.val, FALSE>>,
                    fs |-> f, asked |-> FALSE]
              ELSE [res |-> IF o.res \in Error THEN "OpError" ELSE o.res,
                    val |-> <<>>, fs |-> f, asked |-> FALSE]
              : o \in GetHeadTagVersion(f, tag_type)}
        ELSE IF version = <<>> \/ tagged.res # "ok"
        THEN {[res |-> "OpError", val |-> <<>>, fs |-> f, asked |-> asked]}
        ELSE {[res |-> "ok",
               val |-> <<version[1], tag_type \o <<"/">> \o version[1], TRUE>>,
               fs |-> tagged.fs, asked |-> asked]}

\* the calls of verify_create_head_tag, with a version or with what the
\* operator types, and the repositories they are made in: the HEAD carries
\* tags of type r and a tag of type a, and a tag may stand at another commit
VerifyInputs ==
    {[args |-> a, fs |-> f]
     : a \in [fn : {"verify_create_head_tag"}, safemode : BOOLEAN,
              tag_type : {<<"r">>},
              version_str : {<<v>> : v \in Strings({"1", "v"},
                                                   MaxCallVerLen)},
              answer : {<<>>}]
             \cup [fn : {"verify_create_head_tag"}, safemode : BOOLEAN,
                   tag_type : {<<"r">>}, version_str : {<<>>},
                   answer : Strings({".", "V"}, MaxCallVerLen)],
       f \in [is_rep : {TRUE},
              head : {x \cup e
                      : x \in {{}} \cup {{<<"r", "/">> \o v}
                                         : v \in Strings({"1", "v"},
                                                         MaxCallVerLen)
                                                 \ {<<>>}},
                        e \in SUBSET {<<"a", "/", "1">>, <<"r", "/", "1">>}},
              other : {{}}]
             \cup [is_rep : BOOLEAN, head : {{}, {<<"a", "/", "1">>}},
                   other : {{<<"r", "/", "1">>}}]}

MaxNameLen == 2

\* strftime(_BAK_FILE_DATE_FORMAT) of a clock reading, of which the model
\* keeps the minute and the second: two digits each, joined by a dash
Strftime(time) ==
    LET two(n) == IF n < 10 THEN <<"0">> \o Str(n) ELSE Str(n)
    IN  two(time.min) \o <<"-">> \o two(time.sec)

\* add_backup on the files of bak_dir (f.baks: file name -> archived
\* directory) and the working directory f.wd; the result of name.replace is
\* not kept, and tar -czf writes over a file of the same name
AddBackupFile(f, safemode, name, time) ==
    LET tar_name == name \o <<"_">> \o Strftime(time)
                    \o <<".", "b", "a", "k", ".", "t", "a", "r", ".", "g", "z">>
    IN  IF ~f.is_rep THEN [res |-> "OpError", val |-> <<>>, fs |-> f]
        ELSE IF safemode THEN [res |-> "ok", val |-> tar_name, fs |-> f]
        ELSE [res |-> "ok", val |-> tar_name,
              fs |-> [f EXCEPT !.baks = [n \in DOMAIN f.baks \cup {tar_name} |->
                                           IF n = tar_name THEN f.wd
                                           ELSE f.baks[n]]]]

\* the timestamp restore_backup reads from the name of an archive:
\* bak_f.split('_')[1].split('.')[0]
BakTimestamp(bak_f) == Split(Split(bak_f, "_")[2], ".")[1]

\* restore_backup(flags, bak_dir, name=bak_name): clean_dir, then tar -xf;
\* the directory 0 is the cleaned one
RestoreBackupFile(f, safemode, name) ==
    IF ~f.is_rep THEN [res |-> "OpError", val |-> <<>>, fs |-> f]
    ELSE IF safemode THEN [res |-> "ok", val |-> <<>>, fs |-> f]
    ELSE IF name \notin DOMAIN f.baks
         THEN [res |-> "OpError", val |-> <<>>,
               fs |-> [f EXCEPT !.wd = 0, !.is_rep = FALSE]]
    ELSE [res |-> "ok", val |-> <<>>, fs |-> [f EXCEPT !.wd = f.baks[name]]]

\* the calls of add_backup: the name, the clock at the call and at the
\* following call (the same second or the next), and the directories they
\* are made in, with or without an archive of an earlier directory
BackupInputs ==
    {[args |-> a, fs |-> f]
     : a \in [fn : {"add_backup"}, safemode : BOOLEAN,
              name : Strings({"a", "_"}, MaxNameLen),
              time : [min : {0}, sec : {1}],
              later : 0..1],
       f \in [is_rep : BOOLEAN, wd : {1},
              baks : {<<>>,
                      [n \in {AddBackupFile([is_rep |-> TRUE, wd |-> 2,
                                             baks |-> <<>>], FALSE, <<"a">>,
                                            [min |-> 0, sec |-> 0]).val}
                       |-> 2]}]}

\* _CONFIG with the default (<<>> for None) and the required flag of every
\* key; the values are words, those of excludeFiles strings of characters
ConfigTable ==
    [releaseBranch |-> [default |-> <<"master">>, required |-> TRUE],
     releaseTagType |-> [default |-> <<"release">>, required |-> TRUE],
     upstreamBranch |-> [default |-> <<"upstream">>, required |-> TRUE],
     upstreamTagType |-> [default |-> <<"upstream">>, required |-> TRUE],
     debianBranch |-> [default |-> <<"debian">>, required |-> TRUE],
     debianTagType |-> [default |-> <<"debian">>, required |-> TRUE],
     gpgKeyId |-> [default |-> <<>>, required |-> FALSE],
     buildFlags |-> [default |-> <<>>, required |-> FALSE],
     testBuildFlags |-> [default |-> <<>>, required |-> FALSE],
     buildCommand |-> [default |-> <<"debuild">>, required |-> TRUE],
     packageName |-> [default |-> <<>>, required |-> FALSE],
     distribution |-> [default |-> <<>>, required |-> FALSE],
     urgency |-> [default |-> <<"low">>, required |-> FALSE],
     debianVersionSuffix |-> [default |-> <<"-0ppa1">>, required |-> FALSE],
     excludeFiles |->
         [default |-> <<[str |-> <<"g", "b", "p", "x", ".", "c", "o", "n",
                                   "f", ",", "R", "E", "A", "D", "M", "E",
                                   ".", "m", "d", ",", "L", "I", "C", "E",
                                   "N", "S", "E">>]>>,
          required |-> FALSE],
     ppa |-> [default |-> <<>>, required |-> FALSE],
     editorCommand |-> [default |-> <<"editor">>, required |-> TRUE]]

\* setting.convert of what the parser read, <<>> for None: str, and for
\* excludeFiles [se.strip() for se in str(s).split(',')]
Convert(key, s) ==
    IF key # "excludeFiles" THEN (IF s = <<>> THEN "None" ELSE s[1])
    ELSE [list |->
            [i \in 1..Len(Split(IF s = <<>> THEN <<"None">> ELSE s[1], ",")) |->
               Strip(Split(IF s = <<>> THEN <<"None">> ELSE s[1], ",")[i])]]

\* create_ex_config that writes the defaults whatever is preset
CreateExConfig_defaults_only(file, safemode, preset_keys) ==
    IF file # <<>> THEN [res |-> "ConfigError", fs |-> file]
    ELSE IF safemode THEN [res |-> "ok", fs |-> file]
    ELSE [res |-> "ok",
          fs |-> <<[keys |-> DOMAIN ConfigTable, novalue |-> {},
                    val |-> [k \in DOMAIN ConfigTable |->
                               IF ConfigTable[k].default = <<>> THEN ""
                               ELSE IF k = "excludeFiles"
                                    THEN ConfigTable[k].default[1].str
                               ELSE ConfigTable[k].default[1]]]>>]

\* create_ex_config: file is <<>> when config_path does not exist, else
\* <<the file>>, a file being its keys, the keys without a value and the
\* values; preset_keys is <<>> for None, else <<key -> value>>
CreateExConfig(file, safemode, preset_keys) ==
    IF file # <<>> THEN [res |-> "ConfigError", fs |-> file]
    ELSE IF safemode THEN [res |-> "ok", fs |-> file]
    ELSE [res |-> "ok",
          fs |-> <<[keys |-> DOMAIN ConfigTable, novalue |-> {},
                    val |-> [k \in DOMAIN ConfigTable |->
                               IF preset_keys # <<>> /\ k \in DOMAIN preset_keys[1]
                               THEN preset_keys[1][k]
                               ELSE IF ConfigTable[k].default = <<>>
                                    THEN (IF k = "excludeFiles" THEN <<>> ELSE "")
                               ELSE IF k = "excludeFiles"
                                    THEN ConfigTable[k].default[1].str
                               ELSE ConfigTable[k].default[1]]]>>]

\* get_config: the value of a key is <<>> for None, else <<value>>; cwd is
\* path.basename(getcwd())
GetConfig(file, cwd) ==
    LET loaded(k) ==
            IF k \notin file[1].keys THEN <<>>
            ELSE <<Convert(k, IF k \in file[1].novalue THEN <<>>
                              ELSE <<file[1].val[k]>>)>>
        unset(k) ==
            \/ loaded(k) = <<>>
            \/ k # "excludeFiles" /\ loaded(k)[1] = ""
        val(k) == IF unset(k) THEN ConfigTable[k].default ELSE loaded(k)
    IN  IF file = <<>> THEN [res |-> "ConfigError", val |-> <<>>]
        ELSE IF \E k \in DOMAIN ConfigTable :
                  unset(k) /\ ConfigTable[k].required
             THEN [res |-> "ConfigError", val |-> <<>>]
        ELSE [res |-> "ok",
              val |-> [k \in DOMAIN ConfigTable |->
                         IF k = "packageName" /\ val(k) = <<>> THEN <<cwd>>
                         ELSE val(k)]]

\* the calls of get_config, on no file and on files in which a key of each
\* kind is absent, without a value, empty or set, and the calls of
\* create_ex_config, with and without a file and with presets of such keys
ConfigInputs ==
    LET varied == {"releaseBranch", "gpgKeyId", "packageName", "urgency",
                   "excludeFiles"}
        value(k, e) ==
            IF k = "excludeFiles"
            THEN (IF e THEN <<>> ELSE <<" ", "a", ",", "b">>)
            ELSE (IF e THEN "" ELSE "x")
        files ==
            {[keys |-> DOMAIN ConfigTable \ t[1], novalue |-> t[2],
              val |-> [k \in DOMAIN ConfigTable |->
                         IF k \in varied THEN value(k, k \in t[1] \cup t[3])
                         ELSE IF ConfigTable[k].default = <<>> THEN ""
                         ELSE ConfigTable[k].default[1]]]
             : t \in {u \in (SUBSET varied) \X (SUBSET varied)
                                \X (SUBSET varied) :
                         /\ u[1] \cap (u[2] \cup u[3]) = {}
                         /\ u[2] \cap u[3] = {}}}
        presets ==
            {[k \in t[1] |-> value(k, k \in t[2])]
             : t \in {u \in (SUBSET varied) \X (SUBSET varied) :
                         u[2] \subseteq u[1]}}
    IN  {[args |-> [fn |-> "get_config", cwd |-> "dir"], fs |-> f]
         : f \in {<<>>} \cup {<<c>> : c \in files}}
        \cup {[args |-> a, fs |-> f]
              : a \in [fn : {"create_ex_config"}, cwd : {"dir"},
                       safemode : BOOLEAN,
                       preset_keys : {<<>>} \cup {<<p>> : p \in presets}],
                f \in {<<>>, <<CHOOSE c \in files : c.keys = DOMAIN ConfigTable
                                 /\ c.novalue = {}>>}}

MaxComponents == 2

\* is_version_lt
is_version_lt(ver1, ver2) == compare_versions(ver1, ver2) < 0

\* _commit_release behind verify_create_head_tag, on the tags at the HEAD of
\* the upstream branch (f.head) and the files of the branches outside
\* debian/: the check of the versions, the tarball of the files of the
\* release branch that no --exclude option and no line of .gitignore
\* (f.gitignore, <<>> without the file) names, and its import.  A call
\* gives how it ended, whether the tarball was reached, and the branches.
CommitReleaseOn(f, safemode, conf, release_ver) ==
    LET exclude_opts ==
            IF conf.excludeFiles = <<>> THEN {}
            ELSE IF "list" \in DOMAIN conf.excludeFiles[1]
            THEN {conf.excludeFiles[1].list[i]
                  : i \in 1..Len(conf.excludeFiles[1].list)}
            ELSE {<<conf.excludeFiles[1].str[i]>>
                  : i \in 1..Len(conf.excludeFiles[1].str)}
        tarball ==
            f.release_files
            \ (exclude_opts
               \cup (IF f.gitignore = <<>> THEN {} ELSE f.gitignore[1]))
    IN  UNION
          {IF o.res \notin {"ok", "GitError"}
           THEN {[res |-> o.res, reached |-> FALSE, fs |-> f]}
           ELSE IF o.res = "ok" /\ ~is_version_lt(o.val, release_ver)
           THEN {[res |-> "OpError", reached |-> FALSE, fs |-> f]}
           ELSE IF safemode
           THEN {[res |-> "ok", reached |-> TRUE, fs |-> f]}
           ELSE {[res |-> "OpError", reached |-> TRUE, fs |-> f],
                 [res |-> "ok", reached |-> TRUE,
                  fs |-> [f EXCEPT
                            !.upstream_files = tarball,
                            !.debian_files = tarball,
                            !.head = {conf.upstreamTagType \o <<"/">>
                                      \o release_ver}]]}
           : o \in GetHeadTagVersion([is_rep |-> TRUE, head |-> f.head],
                                     conf.upstreamTagType)}

\* the calls of _commit_release: release versions against the version
\* tagged at the HEAD of the upstream branch, and release branches with
\* and without the files of the default excludeFiles under the
\* configurations get_config loads
CommitReleaseInputs ==
    LET numbers == {<<"1">>, <<"9">>, <<"1", "0">>}
        vers == {Join(c, ".")
                 : c \in UNION {[1..n -> numbers] : n \in 1..MaxComponents}}
        written == CreateExConfig(<<>>, FALSE, <<>>).fs
        excludes ==
            {GetConfig(file, "dir").val["excludeFiles"]
             : file \in {written,
                         <<[written[1] EXCEPT !.keys = @ \ {"excludeFiles"}]>>,
                         CreateExConfig(<<>>, FALSE,
                                        <<[excludeFiles |-> <<"t">>]>>).fs}}
        names == {<<"g", "b", "p", "x", ".", "c", "o", "n", "f">>,
                  <<"R", "E", "A", "D", "M", "E", ".", "m", "d">>,
                  <<"t">>, <<"g">>}
        call(ver, e) ==
            [fn |-> "commit_release", safemode |-> FALSE,
             conf |-> [upstreamTagType |-> <<"a">>, excludeFiles |-> e],
             release_ver |-> ver]
        branches(head, files, ignore) ==
            [head |-> head, release_files |-> files, gitignore |-> ignore,
             upstream_files |-> {}, debian_files |-> {}]
    IN  {[args |-> call(ver, GetConfig(written, "dir").val["excludeFiles"]),
          fs |-> branches(head, names, <<>>)]
         : ver \in vers,
           head \in {{}} \cup {{<<"a", "/">> \o v} : v \in vers}}
        \cup {[args |-> [call(<<"1">>, e) EXCEPT !.safemode = s],
               fs |-> branches({}, files, ignore)]
              : e \in excludes, s \in BOOLEAN, files \in SUBSET names,
                ignore \in {<<>>, <<{}>>, <<{<<"t">>}>>}}


\* rep0 keeps the tags and files the first call was made on
InitCalls ==
    /\ pc = "call"
    /\ \E c \in VerifyInputs \cup BackupInputs \cup ConfigInputs
               \cup CommitReleaseInputs :
         args = c.args /\ fs = c.fs
    /\ ret = <<>>
    /\ action = "config"
    /\ flags = [safemode |-> FALSE]
    /\ options = [norestore |-> FALSE]
    /\ rep = NoRepo
    /\ bak = <<>>
    /\ bak_name = <<>>
    /\ init_data = [run_action |-> TRUE, conf |-> <<>>, restore_data |-> <<>>]
    /\ calls = <<>>
    /\ status = "run"
    /\ rep0 = fs
    /\ fail = [step |-> "", rep |-> rep]
    /\ body_reps = [pre |-> rep, post |-> rep]

\* the frame of a call of a function of gbpxutil.py
CallFrame ==
    UNCHANGED <<args, action, flags, options, rep, bak, bak_name, init_data,
                calls, status, rep0, fail, body_reps>>

VerifyCreateHeadTagCall ==
    /\ pc = "call"
    /\ args.fn = "verify_create_head_tag"
    /\ \E o \in VerifyCreateHeadTag(fs, args.safemode, args.tag_type,
                                     args.version_str, args.answer) :
         /\ ret' = <<o>>
         /\ fs' = o.fs
    /\ pc' = "called"
    /\ CallFrame

\* a following call for the same branch and tag type
VerifyCreateHeadTagAgain ==
    /\ pc = "called"
    /\ args.fn = "verify_create_head_tag"
    /\ ret[1].res = "ok"
    /\ \E o \in VerifyCreateHeadTag(fs, args.safemode, args.tag_type,
                                     args.version_str, args.answer) :
         /\ ret' = Append(ret, o)
         /\ fs' = o.fs
    /\ pc' = "done"
    /\ CallFrame

AddBackupCall ==
    /\ pc = "call"
    /\ args.fn = "add_backup"
    /\ ret' = <<AddBackupFile(fs, args.safemode, args.name, args.time)>>
    /\ fs' = AddBackupFile(fs, args.safemode, args.name, args.time).fs
    /\ pc' = "called"
    /\ CallFrame

\* the restore of one of the archives of bak_dir by its name
RestoreBackupCall ==
    /\ pc = "called"
    /\ args.fn = "add_backup"
    /\ \E n \in DOMAIN fs.baks :
         /\ ret' = Append(ret, RestoreBackupFile(fs, args.safemode, n))
         /\ fs' = RestoreBackupFile(fs, args.safemode, n).fs
    /\ pc' = "restored"
    /\ CallFrame

\* a following backup under the same name, args.later seconds later
AddBackupAgain ==
    /\ pc \in {"called", "restored"}
    /\ args.fn = "add_backup"
    /\ LET o == AddBackupFile(fs, args.safemode, args.name,
                              [args.time EXCEPT !.sec = @ + args.later])
       IN  /\ ret' = Append(ret, o)
           /\ fs' = o.fs
    /\ pc' = "done"
    /\ CallFrame

CreateExConfigCall ==
    /\ pc = "call"
    /\ args.fn = "create_ex_config"
    /\ ret' = <<CreateExConfig(fs, args.safemode, args.preset_keys)>>
    /\ fs' = CreateExConfig(fs, args.safemode, args.preset_keys).fs
    /\ pc' = "called"
    /\ CallFrame

\* get_config, called on its own or after create_ex_config
GetConfigCall ==
    /\ \/ pc = "call" /\ args.fn = "get_config"
       \/ pc = "called" /\ args.fn = "create_ex_config"
    /\ ret' = Append(ret, GetConfig(fs, args.cwd))
    /\ pc' = "done"
    /\ UNCHANGED fs
    /\ CallFrame

CommitReleaseCall ==
    /\ pc = "call"
    /\ args.fn = "commit_release"
    /\ \E o \in CommitReleaseOn(fs, args.safemode, args.conf,
                                 args.release_ver) :
         /\ ret' = <<o>>
         /\ fs' = o.fs
    /\ pc' = "done"
    /\ CallFrame

NextCalls ==
    \/ VerifyCreateHeadTagCall
    \/ VerifyCreateHeadTagAgain
    \/ AddBackupCall
    \/ RestoreBackupCall
    \/ AddBackupAgain
    \/ CreateExConfigCall
    \/ GetConfigCall
    \/ CommitReleaseCall

SpecCalls == InitCalls /\ [][NextCalls]_vars

(***************************************************************************)
(* Properties of a run.                                                    *)
(***************************************************************************)
RepositoryBased == _ACTION_CONF[action].is_repository_based

Called(op) == \E i \in 1..Len(calls) : calls[i].op = op

ActionSucceeded == \E i \in 1..Len(calls) : calls[i] = Call("action", TRUE)

RestoreOps == {"restore_backup", "restore_temp_commit"}

Restores == {i \in 1..Len(calls) : calls[i].op \in RestoreOps}

LastCall == calls[Len(calls)]

\* the steps of _execute and _exec_init before the restore
EngineSteps ==
    <<"add_backup", "create_temp_commit", "switch_branch", "get_config",
      "conflict_check", "action">>

\* the calls made so far are a prefix of the engine steps, each made after the
\* ones before it returned normally, with a restore only as the last call
StepsInOrder ==
    RepositoryBased =>
        \A i \in 1..Len(calls) :
            IF calls[i].op \in RestoreOps THEN i = Len(calls)
            ELSE /\ i <= Len(EngineSteps)
                 /\ calls[i].op = EngineSteps[i]
                 /\ \A j \in 1..(i - 1) : calls[j].ok

Range(seq) == {seq[i] : i \in 1..Len(seq)}

\* C1: when a step after the backup fails in a run of a repository-based
\* action and no-restore is unset, restore_backup is called with the backup
\* name of the run, and when it returns normally the directory is the one
\* archived at the start.
C1_FailureRestoresBackup ==
    (/\ pc = "done"
     /\ RepositoryBased
     /\ ~options.norestore
     /\ fail.step \in {"create_temp_commit", "switch_branch", "get_config",
                       "action"})
    => /\ Called("restore_backup")
       /\ bak_name = <<TarName(action, 1)>>
       /\ LastCall = Call("restore_backup", TRUE) => rep = rep0

\* a body failed with no-restore unset and the run ended without a restore
C1_EndedWithoutRestore ==
    /\ pc = "done"
    /\ RepositoryBased
    /\ ~options.norestore
    /\ fail.step = "action"
    /\ ~Called("restore_backup")

C3_RefusedIffParkedOnCritical ==
    (pc = "exec_action" /\ RepositoryBased)
    => (~init_data.run_action
        <=> /\ init_data.restore_data[1].stash # <<>>
            /\ init_data.restore_data[1].branch
                 \in CriticalBranches(action, init_data.conf[1]))

\* changes parked on a critical branch, and the action is let through
C3_ParkedOnCriticalNotRefused ==
    /\ pc = "exec_action"
    /\ RepositoryBased
    /\ init_data.run_action
    /\ init_data.restore_data[1].stash # <<>>
    /\ init_data.restore_data[1].branch
         \in CriticalBranches(action, init_data.conf[1])

\* C4: commit-build started with uncommitted changes on the configured debian
\* branch never runs _build, never calls restore_backup, and ends on the same
\* branch, HEAD commit and uncommitted changes as it started.
C4_DirtyDebianCommitBuildRefused ==
    (/\ action = "commit-build"
     /\ rep0.isRepo
     /\ rep0.branch = _CONFIG.debianBranch
     /\ rep0.wt # {})
    => /\ ~Called("action")
       /\ ~Called("restore_backup")
       /\ pc = "done" => /\ rep.isRepo
                         /\ rep.branch = rep0.branch
                         /\ HeadCommit(rep, rep.branch)
                              = HeadCommit(rep0, rep0.branch)
                         /\ rep.wt = rep0.wt

\* commit-build with changes parked on the debian branch ran its body
C4_DirtyDebianBuildRan ==
    /\ action = "commit-build"
    /\ rep0.isRepo
    /\ rep0.branch = _CONFIG.debianBranch
    /\ rep0.wt # {}
    /\ init_data.restore_data # <<>>
    /\ init_data.restore_data[1].stash # <<>>
    /\ Called("action")

\* C5: an error raised in the body of a repository-based action is caught and
\* the recovery of _execute runs.
C5_BodyErrorsRecovered ==
    (pc = "done" /\ RepositoryBased /\ fail.step = "action")
    => status = "failed"

\* the body raised an error _execute has no handler for
C5_BodyErrorEscaped ==
    /\ pc = "done"
    /\ RepositoryBased
    /\ fail.step = "action"
    /\ status = "uncaught"

\* C6: when the body of an action with restore_backup set (test-pkg) succeeds,
\* restore_backup is called with the backup of the run, and once it returns
\* normally the directory equals the one the run started in.
C6_ForcedRestoreIsComplete ==
    (/\ pc = "done"
     /\ _ACTION_CONF[action].restore_backup
     /\ ActionSucceeded)
    => /\ LastCall.op = "restore_backup"
       /\ bak_name = <<TarName(action, 1)>>
       /\ LastCall.ok => rep = rep0

\* test-pkg succeeded, restore_backup returned normally, and the directory is
\* on another branch than at the start
C6_RestoredOnOtherBranch ==
    /\ pc = "done"
    /\ _ACTION_CONF[action].restore_backup
    /\ ActionSucceeded
    /\ LastCall = Call("restore_backup", TRUE)
    /\ rep.branch # rep0.branch

C8_BodyCommitsAndTagsRemain ==
    (/\ pc = "done"
     /\ RepositoryBased
     /\ ~_ACTION_CONF[action].restore_backup
     /\ ActionSucceeded
     /\ LastCall.op = "restore_temp_commit")
    => \A b \in Branches :
         /\ \A c \in Range(body_reps.post.hist[b]) :
              c >= body_reps.pre.next => c \in Range(rep.hist[b])
         /\ \A t \in body_reps.post.tags \ body_reps.pre.tags :
              t.commit \in Range(body_reps.post.hist[b])
              => (t \in rep.tags /\ t.commit \in Range(rep.hist[b]))

\* the body committed on the debian branch, restore_temp_commit returned
\* normally, and the commit is off the branch
C8_BodyCommitDropped ==
    /\ pc = "done"
    /\ ActionSucceeded
    /\ LastCall = Call("restore_temp_commit", TRUE)
    /\ \E c \in Range(body_reps.post.hist["debian"]) :
         /\ c >= body_reps.pre.next
         /\ c \notin Range(rep.hist["debian"])

\* C9: when no-restore is set and a step of a repository-based action fails,
\* no restore is called and the directory at the end is the one the failed
\* step left.
C9_NoRestoreLeavesFailedState ==
    (/\ pc = "done"
     /\ RepositoryBased
     /\ options.norestore
     /\ fail.step \notin {"", "add_backup"})
    => /\ Restores = {}
       /\ rep = fail.rep

\* a body failed under no-restore after it changed the directory
C9_FailedBodyLeftChanges ==
    /\ pc = "done"
    /\ status = "failed"
    /\ RepositoryBased
    /\ options.norestore
    /\ fail.step = "action"
    /\ rep = fail.rep
    /\ rep # rep0

\* C10: when add_backup fails, the run ends with no other call made and the
\* directory unchanged.
C10_BackupFailureEndsRun ==
    (calls # <<>> /\ calls[1] = Call("add_backup", FALSE))
    => /\ calls = <<Call("add_backup", FALSE)>>
       /\ pc = "done"
       /\ status = "quit"
       /\ rep = rep0

\* add_backup failed in a git repository and the run has ended
C10_BackupFailed ==
    /\ status = "quit"
    /\ rep0.isRepo
    /\ calls = <<Call("add_backup", FALSE)>>

CallsOf(op) == {i \in 1..Len(calls) : calls[i].op = op}

\* C11: when create_temp_commit fails, the action body is not executed and
\* the archive add_backup wrote in the run is still in the backup directory
\* when the run ends.
C11_TempCommitFailureKeepsBackup ==
    (RepositoryBased /\ Call("create_temp_commit", FALSE) \in Range(calls))
    => /\ ~Called("action")
       /\ TarName(action, 1) \in DOMAIN bak
       /\ bak[TarName(action, 1)] = rep0

\* create_temp_commit failed, the backup was restored and is still there
C11_TempCommitFailed ==
    /\ pc = "done"
    /\ Call("create_temp_commit", FALSE) \in Range(calls)
    /\ LastCall = Call("restore_backup", TRUE)
    /\ TarName(action, 1) \in DOMAIN bak

\* C12: restore_backup is called at most once in a run (for the action
\* restore, by its body); when it fails the run is over, with the failed call
\* as the last one.
C12_RestoreBackupAtMostOnce ==
    /\ Cardinality(CallsOf("restore_backup"))
         + (IF action = "restore" /\ Called("action") THEN 1 ELSE 0) <= 1
    /\ Call("restore_backup", FALSE) \in Range(calls)
         => (pc = "done" /\ LastCall = Call("restore_backup", FALSE))
    /\ (action = "restore" /\ Call("action", FALSE) \in Range(calls))
         => (Restores = {} /\ (pc = "done" => rep = fail.rep))

\* the forced restore after a successful test-pkg failed and ended the run
C12_ForcedRestoreFailed ==
    /\ pc = "done"
    /\ ActionSucceeded
    /\ LastCall = Call("restore_backup", FALSE)
    /\ Cardinality(CallsOf("restore_backup")) = 1

\* C13: for an action that is not repository based (clone, restore, config)
\* _execute calls only the action body: no add_backup, create_temp_commit,
\* switch to master, get_config or conflict check, and no restore when the
\* body fails.
C13_NotRepositoryBasedOnlyBody ==
    ~RepositoryBased
    => /\ Len(calls) <= 1
       /\ \A i \in 1..Len(calls) : calls[i].op = "action"
       /\ init_data = [run_action |-> TRUE, conf |-> <<>>,
                       restore_data |-> <<>>]

\* the body of such an action failed with no-restore unset, and the run ended
C13_BodyFailedNoRestore ==
    /\ ~RepositoryBased
    /\ pc = "done"
    /\ status = "failed"
    /\ ~options.norestore
    /\ calls = <<Call("action", FALSE)>>

\* C14 (as amended): the restore point of a run is passed to
\* restore_temp_commit at most once, and it is passed exactly when the run
\* ends on the success path of an action without restore_backup; on the
\* failure path and after test-pkg it is not consumed.
C14_RestorePointConsumedOnSuccessOnly ==
    (RepositoryBased /\ Call("create_temp_commit", TRUE) \in Range(calls))
    => /\ Cardinality(CallsOf("restore_temp_commit")) <= 1
       /\ Called("restore_temp_commit")
            => init_data.restore_data = <<RestoreData(rep0)>>
       /\ pc = "done"
            => (Called("restore_temp_commit")
                <=> (status = "ok" /\ ~_ACTION_CONF[action].restore_backup))

\* C14 (as stated): every run that made its restore point passes it to
\* restore_temp_commit exactly once before it ends.
C14_RestorePointConsumedExactlyOnce ==
    (/\ pc = "done"
     /\ RepositoryBased
     /\ Call("create_temp_commit", TRUE) \in Range(calls))
    => Cardinality(CallsOf("restore_temp_commit")) = 1

\* a run with parked changes failed under no-restore: the restore point was
\* made and never consumed, the stash entry of the run is still there
C14_RestorePointLeft ==
    /\ pc = "done"
    /\ status = "failed"
    /\ Call("create_temp_commit", TRUE) \in Range(calls)
    /\ init_data.restore_data[1].stash # <<>>
    /\ ~Called("restore_temp_commit")
    /\ ~Called("restore_backup")
    /\ Len(rep.stash) = Len(rep0.stash) + 1

\* C15: outside safemode the working tree is clean when the body of a
\* repository-based action starts: the changes of the start are in the top
\* stash entry and in a temp commit on the branch of the start.
C15_BodyStartsOnCleanTree ==
    (/\ pc = "exec_action"
     /\ RepositoryBased
     /\ init_data.run_action
     /\ ~flags.safemode)
    => /\ rep.wt = {}
       /\ rep0.wt # {}
            => /\ rep.stash # <<>>
               /\ rep.stash[1].changes = rep0.wt
               /\ Len(rep.hist[rep0.branch])
                    = Len(rep0.hist[rep0.branch]) + 1

\* a body about to start after tracked and untracked changes were parked
C15_ParkedBeforeBody ==
    /\ pc = "exec_action"
    /\ RepositoryBased
    /\ init_data.run_action
    /\ ~flags.safemode
    /\ rep0.wt = {"m", "u"}
    /\ rep0.branch = "work"
    /\ rep.wt = {}

\* C16: restore_temp_commit called on the result of create_temp_commit, with
\* nothing in between, returns normally and leaves the current branch, the
\* commits of every branch, the uncommitted changes and the stash list as
\* they were before create_temp_commit.
C16_CreateThenRestoreIsIdentity ==
    (Len(calls) = 2 /\ calls[1] = Call("create_temp_commit", TRUE))
    => /\ calls[2] = Call("restore_temp_commit", TRUE)
       /\ rep.branch = rep0.branch
       /\ HeadCommit(rep, rep.branch) = HeadCommit(rep0, rep0.branch)
       /\ rep.hist = rep0.hist
       /\ rep.wt = rep0.wt
       /\ rep.stash = rep0.stash

\* the round trip outside safemode with tracked and untracked changes and a
\* stash entry of the operator's
C16_RoundTripWithParkedChanges ==
    /\ Len(calls) = 2
    /\ calls[2] = Call("restore_temp_commit", TRUE)
    /\ ~flags.safemode
    /\ rep0.wt = {"m", "u"}
    /\ rep0.stash # <<>>
    /\ body_reps.pre.wt = {}
    /\ rep.wt = rep0.wt
    /\ rep.stash = rep0.stash

\* the single call of restore_temp_commit with a restore point without stash
NoStashCall ==
    /\ pc = "done"
    /\ Len(calls) = 1
    /\ calls[1].op = "restore_temp_commit"

\* C17 (as amended): restore_temp_commit with a restore point whose stash
\* name is None makes no reset and no stash apply or drop: commits, stash,
\* tags and uncommitted changes stay; it checks out the branch of the restore
\* point, and raises only where there is no repository or that checkout, of
\* another branch than the current one, fails.
C17_NoStashOnlySwitchesBranch ==
    NoStashCall
    => /\ rep.hist = rep0.hist
       /\ rep.stash = rep0.stash
       /\ rep.tags = rep0.tags
       /\ rep.wt = rep0.wt
       /\ calls[1].ok => rep.branch = init_data.restore_data[1].branch
       /\ ~calls[1].ok
            => /\ rep = rep0
               /\ \/ ~rep0.isRepo
                  \/ /\ init_data.restore_data[1].branch # rep0.branch
                     /\ rep0.wt # {}

\* C17 (as stated): the call is a no-op and raises no error.
C17_NoStashIsNoOp ==
    NoStashCall => (calls[1].ok /\ rep = rep0)

\* the call moved a clean repository to the branch of the restore point
C17_NoStashSwitched ==
    /\ NoStashCall
    /\ calls[1].ok
    /\ rep0.isRepo
    /\ rep.branch = init_data.restore_data[1].branch
    /\ rep.branch # rep0.branch

\* C18: a second restore_temp_commit with the same restore point, after the
\* first one dropped the stash of the run, fails, also when the repository
\* holds other stash entries.
C18_SecondRestoreFails ==
    (/\ Len(calls) = 3
     /\ calls[2] = Call("restore_temp_commit", TRUE)
     /\ init_data.restore_data[1].stash # <<>>
     /\ ~flags.safemode)
    => ~calls[3].ok

\* the second call returned normally and took a stash entry of the operator's
C18_SecondRestoreTookOtherStash ==
    /\ Len(calls) = 3
    /\ calls[3] = Call("restore_temp_commit", TRUE)
    /\ init_data.restore_data[1].stash # <<>>
    /\ ~flags.safemode
    /\ rep0.stash # <<>>
    /\ Len(rep.stash) = Len(rep0.stash) - 1

\* C19: a run that ends in failure (the backup could not be saved, a step
\* of the initiation failed, or the body failed) ends the process with an
\* exit status other than 0.
C19_FailureExitsNonZero ==
    (pc = "done" /\ status \in {"quit", "failed", "uncaught"})
    => ExitStatus # 0

\* a body failed, the backup was restored, and the process ended with 0
C19_FailedRunExitsZero ==
    /\ pc = "done"
    /\ status = "failed"
    /\ fail.step = "action"
    /\ LastCall = Call("restore_backup", TRUE)
    /\ ExitStatus = 0

\* C20: in safemode no run changes the directory or the backup directory:
\* commits, tags, stash, branches, uncommitted changes, files and archives
\* stay as they were (the branch checked out is left aside).
C20_SafemodeMutatesNothing ==
    flags.safemode
    => /\ [rep EXCEPT !.branch = rep0.branch] = rep0
       /\ bak \in InitBaks

\* clone in safemode removed the tracked files of a branch
C20_SafemodeCloneRemovedFiles ==
    /\ flags.safemode
    /\ action = "clone"
    /\ rep0.isRepo
    /\ "m" \in rep.wt
    /\ "m" \notin rep0.wt

\* the integers formed by the maximal digit runs of a string
IntRuns(s) == [i \in 1..Len(DigitRuns(s)) |-> IntValue(DigitRuns(s)[i])]

\* the three-way comparison of two sequences of integers
RECURSIVE ThreeWay(_, _)
ThreeWay(l1, l2) ==
    IF l1 = <<>> /\ l2 = <<>> THEN 0
    ELSE IF l1 = <<>> THEN -1
    ELSE IF l2 = <<>> THEN 1
    ELSE IF Head(l1) < Head(l2) THEN -1
    ELSE IF Head(l1) > Head(l2) THEN 1
    ELSE ThreeWay(Tail(l1), Tail(l2))

Returned(fn) == pc = "done" /\ args.fn = fn

\* C24: compare_versions(a, b) is the three-way comparison of the sequences
\* of integers formed by the maximal digit runs of a and of b.
C24_CompareIsNumericThreeWay ==
    Returned("compare_versions")
    => ret = ThreeWay(IntRuns(args.ver1), IntRuns(args.ver2))

\* 9 against 10 is answered 1, the runs being compared as strings
C24_NineAboveTen ==
    /\ Returned("compare_versions")
    /\ args.ver1 = <<"9">>
    /\ args.ver2 = <<"1", "0">>
    /\ ret = 1

\* C25: compare_versions(v, v) is 0, and compare_versions(a, b) is minus
\* compare_versions(b, a) whenever the digit runs of a and b differ.
C25_ReflexiveAndAntisymmetric ==
    Returned("compare_versions")
    => /\ args.ver1 = args.ver2 => ret = 0
       /\ IntRuns(args.ver1) # IntRuns(args.ver2)
          => ret = 0 - compare_versions(args.ver2, args.ver1)
       /\ DigitRuns(args.ver1) # DigitRuns(args.ver2)
          => ret = 0 - compare_versions(args.ver2, args.ver1)

\* two versions with different runs compared, the answer being 1
C25_DifferentRunsCompared ==
    /\ Returned("compare_versions")
    /\ IntRuns(args.ver1) # IntRuns(args.ver2)
    /\ ret = 1
    /\ compare_versions(args.ver2, args.ver1) = -1

\* the index of the first '~' or '-' of v, Len(v) + 1 if there is none
SuffixAt(v) ==
    IF \E i \in 1..Len(v) : v[i] \in {"~", "-"}
    THEN CHOOSE i \in 1..Len(v) :
           v[i] \in {"~", "-"} /\ \A j \in 1..(i - 1) : v[j] \notin {"~", "-"}
    ELSE Len(v) + 1

\* the dot-separated components of the part of v before its suffix
BaseComponents(v) == Split(SubSeq(v, 1, SuffixAt(v) - 1), ".")

LastComponent(v) == BaseComponents(v)[Len(BaseComponents(v))]

Numeric(x) == x # <<>> /\ \A i \in 1..Len(x) : x[i] \in Digits

\* v with 1 added to the last component of its base part, the rest as it was
Incremented(v) ==
    Join([BaseComponents(v) EXCEPT ![Len(BaseComponents(v))] =
                                     Str(IntValue(LastComponent(v)) + 1)], ".")
    \o SubSeq(v, SuffixAt(v), Len(v))

\* C26: the next version of v is v with 1 added to the last dot-separated
\* component of the part before the first '~' or '-', the separator and the
\* suffix reattached unchanged.
C26_NextVersionKeepsSuffix ==
    (Returned("get_next_version") /\ Numeric(LastComponent(args.version)))
    => ret = [res |-> "ok", val |-> Incremented(args.version)]

\* the suffix of 1~1 comes back behind a '-'
C26_TildeBecameDash ==
    /\ Returned("get_next_version")
    /\ args.version = <<"1", "~", "1">>
    /\ ret = [res |-> "ok", val |-> <<"2", "-", "1">>]

\* C27: when the last dot-separated component of the base part is not
\* numeric, the next-version operation fails with GitError.
C27_NonNumericGivesGitError ==
    (Returned("get_next_version") /\ ~Numeric(LastComponent(args.version)))
    => ret.res = "GitError"

\* the version 1.a ended the call with a ValueError
C27_ValueErrorEscaped ==
    /\ Returned("get_next_version")
    /\ args.version = <<"1", ".", "a">>
    /\ ret.res = "ValueError"

\* the tag is tag_type, a '/' and a non-empty version without '/'
TagOfType ==
    /\ Len(args.tag) > Len(args.tag_type) + 1
    /\ SubSeq(args.tag, 1, Len(args.tag_type)) = args.tag_type
    /\ args.tag[Len(args.tag_type) + 1] = "/"
    /\ \A i \in (Len(args.tag_type) + 2)..Len(args.tag) : args.tag[i] # "/"

VersionOfTag == SubSeq(args.tag, Len(args.tag_type) + 2, Len(args.tag))

C29_OtherTagsGiveGitError ==
    (Returned("get_version_from_tag")
     /\ ~(/\ Len(args.tag) > Len(args.tag_type) + 1
          /\ SubSeq(args.tag, 1, Len(args.tag_type)) = args.tag_type
          /\ args.tag[Len(args.tag_type) + 1] = "/"))
    => ret.res = "GitError"

\* the tag r/ gave the empty version
C29_EmptyVersionReturned ==
    /\ Returned("get_version_from_tag")
    /\ args.tag = <<"r", "/">>
    /\ args.tag_type = <<"r">>
    /\ ret = [res |-> "ok", val |-> <<>>]

\* the tags of the requested type among those at HEAD
OfType ==
    {tag \in Range(args.head_tags) :
       SubSeq(tag, 1, Len(args.tag_type) + 1) = args.tag_type \o <<"/">>}

\* the dot-separated components of the version of a tag before its first '-'
Components(tag) ==
    Split(SubSeq(tag, Len(args.tag_type) + 2,
                 IF IndexOf(tag, "-") = 0 THEN Len(tag) ELSE IndexOf(tag, "-") - 1),
          ".")

NumericTag(tag) == \A k \in 1..Len(Components(tag)) : Numeric(Components(tag)[k])

Numbers(tag) == [k \in 1..Len(Components(tag)) |-> IntValue(Components(tag)[k])]

C21_FailuresAreGitErrors ==
    (pc = "done" /\ args.fn \in GitFunctions \cup {"get_head_tag", "get_next_version"})
    => ret.res \in {"ok", "GitError"}

\* a HEAD tag with a component that is no number ended get_head_tag with a
\* ValueError
C21_HeadTagValueError ==
    /\ Returned("get_head_tag")
    /\ \E tag \in OfType : ~NumericTag(tag)
    /\ ret.res = "ValueError"

\* C22: every function of the repository adapter issues git status before any
\* command of its own, and outside a repository fails having issued none.
C22_RepositoryCheckedFirst ==
    (pc = "done" /\ args.fn \in GitFunctions)
    => /\ \A i \in 1..Len(ret.issued) :
            ret.issued[i] # "status" => \E j \in 1..(i - 1) : ret.issued[j] = "status"
       /\ ~args.is_rep
          => /\ ret.res = "GitError"
             /\ \A i \in 1..Len(ret.issued) : ret.issued[i] = "status"

\* clean_repository outside a repository issued git clean, and nothing before
C22_CleanIssuedUnchecked ==
    /\ Returned("clean_repository")
    /\ ~args.is_rep
    /\ ~args.safemode
    /\ ret = [res |-> "GitError", issued |-> <<"clean -fd">>]

\* C23: exec_cmd raises CommandError if and only if the return code of the
\* process is not 0 or 'fatal' is in what it printed, and returns the stripped
\* standard output otherwise.
C23_CommandErrorIffFailed ==
    (Returned("exec_cmd") /\ args.run.raises = "")
    => IF \/ args.run.returncode # 0
          \/ HasFatal(args.run.std_output)
          \/ HasFatal(args.run.std_err_output)
       THEN ret.res = "CommandError"
       ELSE ret = [res |-> "ok", val |-> Strip(args.run.std_output)]

\* a process ended by a signal, and its output returned
C23_NegativeReturnCodeAccepted ==
    /\ Returned("exec_cmd")
    /\ args.run.raises = ""
    /\ args.run.returncode < 0
    /\ ret.res = "ok"

\* the HEAD carries a tag of the type
HeadCarries(f, tag_type) ==
    \E t \in f.head : SubSeq(t, 1, Len(tag_type) + 1) = tag_type \o <<"/">>

\* the version of a tag of the type is made of numbers and dots, with a
\* suffix behind a dash at most
NumericVersions(f, tag_type) ==
    \A t \in f.head :
      SubSeq(t, 1, Len(tag_type) + 1) = tag_type \o <<"/">>
      => \A k \in 1..Len(KeyParts(t)) : IsInt(KeyParts(t)[k])

Verified == args.fn = "verify_create_head_tag" /\ pc # "call"

\* C31: when the HEAD of the branch carries a tag of tag_type,
\* verify_create_head_tag creates no tag, asks the operator nothing and
\* returns the version of a tag at HEAD, the tag tag_type/version and
\* created = False, whatever version was proposed.
C31_TaggedHeadIsReturned ==
    (Verified /\ rep0.is_rep /\ HeadCarries(rep0, args.tag_type))
    => /\ ret[1].res = "ok"
       /\ ~ret[1].asked
       /\ ret[1].fs = rep0
       /\ ret[1].val[2] = args.tag_type \o <<"/">> \o ret[1].val[1]
       /\ ret[1].val[2] \in rep0.head
       /\ ret[1].val[3] = FALSE

\* a HEAD tag whose version is no number: the call ends in a ValueError
C31_TaggedHeadValueError ==
    /\ Verified
    /\ HeadCarries(rep0, args.tag_type)
    /\ ret[1].res = "ValueError"

\* C32: when the HEAD carries no tag of tag_type and a version is passed in
\* or typed by the operator, a call of verify_create_head_tag that returns
\* has, outside safe-mode, tagged the HEAD with tag_type/version and returns
\* created = True, and a following call returns that version with
\* created = False and adds no tag; in safe-mode no tag is created.
C32_CreatedThenFound ==
    (/\ Verified
     /\ rep0.is_rep /\ ~HeadCarries(rep0, args.tag_type)
     /\ args.version_str # <<>> \/ args.answer # <<>>
     /\ ret[1].res = "ok")
    => /\ ret[1].val[3] = TRUE
       /\ ret[1].val[2] = args.tag_type \o <<"/">> \o ret[1].val[1]
       /\ ret[1].fs.other = rep0.other
       /\ ret[1].fs.head = IF args.safemode THEN rep0.head
                           ELSE rep0.head \cup {ret[1].val[2]}
       /\ (pc = "done" /\ ~args.safemode)
          => /\ ret[2].res = "ok"
             /\ ret[2].val[1] = ret[1].val[1]
             /\ ret[2].val[3] = FALSE
             /\ ret[2].fs = ret[1].fs

\* a version that is no number was tagged: the following call ends in a
\* ValueError
C32_FollowingCallValueError ==
    /\ Verified
    /\ pc = "done"
    /\ ret[1].res = "ok" /\ ret[1].val[3] = TRUE
    /\ ret[2].res = "ValueError"

\* the number of underscores of a file name
Underscores(s) == Cardinality({i \in 1..Len(s) : s[i] = "_"})

\* C33: the name of the archive add_backup writes holds exactly one
\* underscore, and the text between it and the first following dot is the
\* timestamp, whatever name was given.
C33_OneUnderscoreBeforeTimestamp ==
    (args.fn = "add_backup" /\ pc # "call" /\ ret[1].res = "ok")
    => /\ Underscores(ret[1].val) = 1
       /\ BakTimestamp(ret[1].val) = Strftime(args.time)

\* a name with an underscore was given and the archive was named
C33_UnderscoreKept ==
    /\ args.fn = "add_backup" /\ pc # "call"
    /\ Underscores(args.name) > 0
    /\ ret[1].res = "ok"
    /\ Underscores(ret[1].val) > 1

\* C34: every archive of bak_dir, those that were there and those written
\* by add_backup, stays with the directory it was written from, also after
\* a restore and after a following backup of the same second.
C34_ArchivesAreKept ==
    args.fn = "add_backup"
    => /\ \A n \in DOMAIN rep0.baks :
            n \in DOMAIN fs.baks /\ fs.baks[n] = rep0.baks[n]
       /\ \A i \in 1..Len(ret) :
            (ret[i].res = "ok" /\ ret[i].val # <<>> /\ ~args.safemode)
            => /\ ret[i].val \in DOMAIN fs.baks
               /\ fs.baks[ret[i].val] = ret[i].fs.wd

\* the following backup of the same second was written over the first
C34_ArchiveOverwritten ==
    /\ args.fn = "add_backup" /\ pc = "done" /\ ~args.safemode
    /\ ret[1].res = "ok" /\ ret[Len(ret)].res = "ok"
    /\ ret[Len(ret)].val = ret[1].val
    /\ fs.baks[ret[1].val] # ret[1].fs.wd

\* the key is not in the file, or stands there without a value or with
\* an empty one
KeyUnset(file, k) ==
    \/ k \notin file[1].keys
    \/ k \in file[1].novalue
    \/ file[1].val[k] = (IF k = "excludeFiles" THEN <<>> ELSE "")

\* the default of a key as a loaded value: that of excludeFiles is the
\* list of its entries
LoadedDefault(k) ==
    IF k = "excludeFiles"
    THEN <<Convert(k, <<ConfigTable[k].default[1].str>>)>>
    ELSE ConfigTable[k].default

\* C35: get_config fails with ConfigError when the file is missing or a
\* required key is absent or empty, and otherwise returns a mapping of
\* every key in which each absent or empty optional key has its default.
C35_RequiredKeysOrDefaults ==
    (args.fn = "get_config" /\ pc = "done")
    => /\ ret[1].res = "ConfigError"
          <=> \/ rep0 = <<>>
              \/ \E k \in DOMAIN ConfigTable :
                   ConfigTable[k].required /\ KeyUnset(rep0, k)
       /\ ret[1].res = "ok"
          => /\ DOMAIN ret[1].val = DOMAIN ConfigTable
             /\ \A k \in DOMAIN ConfigTable :
                  (~ConfigTable[k].required /\ KeyUnset(rep0, k))
                  => ret[1].val[k] = LoadedDefault(k)

\* an empty excludeFiles was loaded as the list of one empty entry
C35_EmptyExcludeFilesLoaded ==
    /\ args.fn = "get_config" /\ pc = "done"
    /\ ret[1].res = "ok"
    /\ "excludeFiles" \in rep0[1].keys \ rep0[1].novalue
    /\ rep0[1].val["excludeFiles"] = <<>>
    /\ ret[1].val["excludeFiles"] = <<[list |-> <<<<>>>>]>>

Created == args.fn = "create_ex_config" /\ pc # "call"

\* the value of a preset key as a loaded value
LoadedPreset(k) ==
    IF k = "excludeFiles" THEN <<Convert(k, <<args.preset_keys[1][k]>>)>>
    ELSE <<args.preset_keys[1][k]>>

Preset(k) == args.preset_keys # <<>> /\ k \in DOMAIN args.preset_keys[1]

Listed(e) ==
    LET l == IF e = <<>> THEN <<>>
             ELSE IF "list" \in DOMAIN e[1] THEN e[1].list
             ELSE Convert("excludeFiles", <<e[1].str>>).list
    IN  {l[i] : i \in 1..Len(l)}

\* C36: after a successful commit-release the upstream branch and the
\* debian branch each hold every file of the HEAD of the release branch
\* except the files listed in excludeFiles, and no other file.
C36_BranchesHoldReleaseFiles ==
    (/\ Returned("commit_release")
     /\ ~args.safemode
     /\ ret[1].res = "ok")
    => /\ fs.upstream_files
          = rep0.release_files \ Listed(args.conf.excludeFiles)
       /\ fs.debian_files
          = rep0.release_files \ Listed(args.conf.excludeFiles)

\* a release made under a configuration file without the excludeFiles key
\* and without .gitignore put gbpx.conf and README.md on the upstream branch
C36_ConfigFileImported ==
    /\ Returned("commit_release")
    /\ ~args.safemode
    /\ ret[1].res = "ok"
    /\ rep0.gitignore = <<>>
    /\ "str" \in DOMAIN args.conf.excludeFiles[1]
    /\ <<"g", "b", "p", "x", ".", "c", "o", "n", "f">> \in fs.upstream_files
    /\ <<"R", "E", "A", "D", "M", "E", ".", "m", "d">> \in fs.upstream_files
    /\ <<"g">> \in rep0.release_files
    /\ <<"g">> \notin fs.upstream_files

\* C37: _commit_release reaches the tarball import exactly when the HEAD of
\* the upstream branch has no upstream tag or the version of its tag is
\* strictly less, in numeric order, than the release version; otherwise it
\* fails before a tarball is built or imported.
C37_ImportOnlyBelowInNumericOrder ==
    Returned("commit_release")
    => /\ ret[1].reached
          <=> \A t \in rep0.head :
                ThreeWay(IntRuns(SubSeq(t, 3, Len(t))),
                         IntRuns(args.release_ver)) = -1
       /\ ~ret[1].reached
          => /\ ret[1].res = "OpError"
             /\ fs = rep0

\* release 1.10 was refused after upstream 1.9 before any tarball
C37_TenAfterNineRefused ==
    /\ Returned("commit_release")
    /\ rep0.head = {<<"a", "/", "1", ".", "9">>}
    /\ args.release_ver = <<"1", ".", "1", "0">>
    /\ ~ret[1].reached
    /\ ret[1].res = "OpError"
    /\ fs = rep0

\* a run of a repository-based action without restore_backup in which no
\* call failed and the action was made
SucceededWithoutRestore ==
    /\ pc = "done"
    /\ status = "ok"
    /\ RepositoryBased
    /\ ~_ACTION_CONF[action].restore_backup
    /\ ActionSucceeded
    /\ \A i \in 1..Len(calls) : calls[i].ok

\* C38: after a successful run of a repository-based action whose
\* restore_backup is false the stash list equals the stash list before the
\* run: the entry create_temp_commit pushed has been dropped and no entry
\* that was there before has been applied or dropped.
C38_StashListAsBefore ==
    SucceededWithoutRestore => rep.stash = rep0.stash

\* such a run parked uncommitted changes above a stash entry of the
\* operator's and ended with that entry alone
C38_ParkedAboveOwnStash ==
    /\ SucceededWithoutRestore
    /\ ~flags.safemode
    /\ init_data.restore_data[1].stash # <<>>
    /\ rep0.stash = <<OwnStash>>
    /\ rep.stash = rep0.stash

\* restore_temp_commit failed behind an action that succeeded
ResetFailed ==
    /\ pc = "done"
    /\ ActionSucceeded
    /\ LastCall = Call("restore_temp_commit", FALSE)

====
